---- MODULE Spec2Model ----
(***************************************************************************)
(* A state-machine model of the blog / helpdesk REST backend               *)
(* (FastAPI handlers over a MySQL database through SQLAlchemy).            *)
(*                                                                         *)
(* Storage is one variable, db, a record of tables (sets of rows).  Every  *)
(* request runs in its own database session.  A handler is modelled by a   *)
(* read step (its SELECTs, which under InnoDB's REPEATABLE READ all see    *)
(* the snapshot taken by the first one) and, when it writes, a commit step *)
(* (flush + COMMIT, where the database's unique and foreign-key            *)
(* constraints are evaluated against the committed rows).  A handler that  *)
(* only reads, or that answers from its read step, is a single step, and   *)
(* so are the handlers that insert or delete a row in the specifications   *)
(* that handle one request at a time (serial = TRUE) and use them only to  *)
(* build storage.                                                          *)
(*                                                                         *)
(* last is a history variable: the request completed last, with the        *)
(* storage it read (pre) and the storage it left (post).  minted, issued   *)
(* and acked are history variables too: the tokens created, the tokens     *)
(* logins returned, and the view / like requests answered 200.             *)
(***************************************************************************)
EXTENDS Integers, Sequences, FiniteSets, TLC

VARIABLES db, now, pc, req, last, minted, issued, acked, serial

vars == <<db, now, pc, req, last, minted, issued, acked, serial>>

(***************************************************************************)
(* Bounds of the model.                                                    *)
(***************************************************************************)
NProcs == 2          \* request slots (requests in flight at once)
MaxTicks == 2        \* clock ticks the model lets pass
TickMinutes == 15    \* minutes per clock tick
MaxMinted == 1       \* tokens tracked by the token specification
MaxUsers == 2        \* user rows
MaxIssued == 1       \* login tokens the model keeps track of
MaxViewsSeen == 3    \* counter value up to which view/like requests start

(***************************************************************************)
(* Program constants.                                                      *)
(***************************************************************************)
ACCESS_TOKEN_EXPIRE_MINUTES == 30
PasswordMaxLen == 72
MinutesPerDay == 1440
PasswordMinLen == 6
UsernameMinLen == 3
UsernameMaxLen == 50

SECRET_KEY == "dev-secret-key-change-in-production"

\* Python's None / SQL NULL where the field is otherwise an integer.
Null == 0 - 1

Procs == 1..NProcs

Min(a, b) == IF a <= b THEN a ELSE b
Max(a, b) == IF a >= b THEN a ELSE b

(***************************************************************************)
(* Storage.                                                                *)
(***************************************************************************)
EmptyDb ==
  [ users |-> {}, posts |-> {}, categories |-> {}, tags |-> {},
    ticket_categories |-> {}, tickets |-> {}, comments |-> {},
    quick_replies |-> {},
    next_id |-> [ users |-> 1, posts |-> 1, categories |-> 1, tags |-> 1,
                  ticket_categories |-> 1, tickets |-> 1, comments |-> 1,
                  quick_replies |-> 1 ] ]

Ids(table) == { r.id : r \in table }
RowOf(table, id) == CHOOSE r \in table : r.id = id

(***************************************************************************)
(* Responses.  A JSONResponse carries the envelope {code, data, msg} at    *)
(* the top level of its body; an HTTPException raised by a dependency is   *)
(* rendered by the framework as {"detail": <detail>} (wrapped).            *)
(***************************************************************************)
DataNull == [kind |-> "null"]
DataEmpty == [kind |-> "empty"]

JSONResponse(status, code, data, msg) ==
  [status |-> status, code |-> code, data |-> data, msg |-> msg, wrapped |-> FALSE]

HTTPException(status, msg) ==
  [status |-> status, code |-> status, data |-> DataEmpty, msg |-> msg, wrapped |-> TRUE]

\* The framework's answer to a body that fails its pydantic schema.
RequestValidationError ==
  [status |-> 422, code |-> Null, data |-> DataNull, msg |-> "validation error", wrapped |-> TRUE]

NoReq == [op |-> "none"]
NoLast == [op |-> "none"]

(***************************************************************************)
(* Tokens.  A JWT is its payload and the key that signed it; a string that *)
(* is no JWT at all has key "malformed".  str(user.id) is StrOf(id).       *)
(***************************************************************************)
StrOf(n) == [digits |-> n]
IntOf(s) == s.digits
NoSub == [digits |-> Null]

NoDelta == Null

\* `if expires_delta:` is false for None and for timedelta(0).
create_access_token(data, expires_delta, t) ==
  [ sub |-> data.sub,
    exp |-> IF expires_delta # NoDelta /\ expires_delta # 0
              THEN t + expires_delta
              ELSE t + ACCESS_TOKEN_EXPIRE_MINUTES,
    key |-> SECRET_KEY ]

NoPayload == [valid |-> FALSE, sub |-> NoSub, exp |-> Null]

decode_access_token_no_expiry(token, t) ==
  IF token.key # SECRET_KEY
    THEN NoPayload
    ELSE [valid |-> TRUE, sub |-> token.sub, exp |-> token.exp]

\* jwt.decode verifies the signature (InvalidTokenError) and then the exp
\* claim (ExpiredSignatureError once exp <= now); both give None.
decode_access_token(token, t) ==
  IF token.key # SECRET_KEY
    THEN NoPayload
    ELSE IF token.exp <= t
      THEN NoPayload
      ELSE [valid |-> TRUE, sub |-> token.sub, exp |-> token.exp]

Times == { k * TickMinutes : k \in 0..MaxTicks }
Deltas == { NoDelta, 0, TickMinutes, 2 * TickMinutes }
Subs == { StrOf(i) : i \in 1..(MaxUsers + 1) }

MalformedToken == [sub |-> NoSub, exp |-> Null, key |-> "malformed"]

\* The tokens a client presents in the model: any subject, the expiry times
\* login can give, signed with the server's key or with another one; and a
\* string that is no JWT.
TokenDomain ==
  [ sub : Subs \cup {NoSub},
    exp : { t + ACCESS_TOKEN_EXPIRE_MINUTES : t \in Times },
    key : {SECRET_KEY, "another-key"} ]
  \cup {MalformedToken}

(***************************************************************************)
(* The Authorization header.  kind "none": no header; "empty": the empty   *)
(* string; "parts": a non-empty string, of which n, scheme and token are   *)
(* what authorization.split() gives (its length, parts[0], parts[1]).      *)
(***************************************************************************)
NoHeader == [kind |-> "none"]
EmptyHeader == [kind |-> "empty"]
Header(n, scheme, token) == [kind |-> "parts", n |-> n, scheme |-> scheme, token |-> token]
Bearer(token) == Header(2, "Bearer", token)

\* str.lower() on the scheme words of the model.
Lower(s) ==
  CASE s = "Bearer" -> "bearer"
    [] s = "BEARER" -> "bearer"
    [] s = "bearer" -> "bearer"
    [] s = "Basic" -> "basic"
    [] OTHER -> s

NoUser == [id |-> Null]

Authenticated(user) == [ok |-> TRUE, user |-> user, error |-> HTTPException(200, "")]
Unauthorized(msg) == [ok |-> FALSE, user |-> NoUser, error |-> HTTPException(401, msg)]

get_current_user_unverified(authorization, d, t) ==
  IF authorization.kind \in {"none", "empty"}
    THEN Unauthorized("authorization header missing")
  ELSE IF authorization.n # 2 \/ Lower(authorization.scheme) # "bearer"
    THEN Unauthorized("invalid authorization header format")
  ELSE LET payload == decode_access_token_no_expiry(authorization.token, t) IN
    IF ~payload.valid
      THEN Unauthorized("invalid or expired token")
    ELSE IF payload.sub = NoSub
      THEN Unauthorized("invalid token payload")
    ELSE IF IntOf(payload.sub) \notin Ids(d.users)
      THEN Unauthorized("user not found")
    ELSE Authenticated(RowOf(d.users, IntOf(payload.sub)))

\* The strict identity dependency: the user row, or HTTPException(401).
get_current_user(authorization, d, t) ==
  IF authorization.kind \in {"none", "empty"}
    THEN Unauthorized("authorization header missing")
  ELSE IF authorization.n # 2 \/ Lower(authorization.scheme) # "bearer"
    THEN Unauthorized("invalid authorization header format")
  ELSE LET payload == decode_access_token(authorization.token, t) IN
    IF ~payload.valid
      THEN Unauthorized("invalid or expired token")
    ELSE IF payload.sub = NoSub
      THEN Unauthorized("invalid token payload")
    ELSE IF IntOf(payload.sub) \notin Ids(d.users)
      THEN Unauthorized("user not found")
    ELSE Authenticated(RowOf(d.users, IntOf(payload.sub)))

\* utils.dependencies.require_current_user: the strict variant the
\* protected routes depend on.
require_current_user(authorization, d, t) == get_current_user(authorization, d, t)

\* utils.dependencies.get_current_user: the permissive variant, which
\* resolves to "no identity" (None) instead of rejecting the request.
optional_current_user(authorization, d, t) ==
  LET r == get_current_user(authorization, d, t) IN
    IF r.ok THEN r.user ELSE NoUser

(***************************************************************************)
(* Passwords and usernames of the model, with their len().                 *)
(***************************************************************************)
Usernames == {"alice", "bob", "al"}
Passwords == {"secret-1", "secret-2", "long-73"}

UsernameLen(u) ==
  CASE u = "alice" -> 5
    [] u = "bob" -> 3
    [] u = "al" -> 2
    [] u = "u-50" -> 50
    [] u = "u-51" -> 51
    [] OTHER -> 0

PasswordLen(p) ==
  CASE p = "secret-1" -> 8
    [] p = "secret-2" -> 8
    [] p = "long-73" -> 73
    [] p = "pw-5" -> 5
    [] p = "pw-6" -> 6
    [] p = "pw-72" -> 72
    [] OTHER -> 0

\* utils.auth: a salted one-way digest and its check; hashing an input over
\* bcrypt's 72-byte ceiling raises ValueError.
get_password_hash(password) == [digest_of |-> password]
verify_password(password, digest) == digest.digest_of = password
hash_raises(password) == PasswordLen(password) > PasswordMaxLen

UserRegister_any(u, p) == TRUE

\* schemas.UserRegister / schemas.UserLogin
UserRegister(u, p) ==
  /\ UsernameLen(u) >= UsernameMinLen /\ UsernameLen(u) <= UsernameMaxLen
  /\ PasswordLen(p) >= PasswordMinLen /\ PasswordLen(p) <= PasswordMaxLen
UserLogin(u, p) == PasswordLen(p) <= PasswordMaxLen

(***************************************************************************)
(* Request machinery.                                                      *)
(***************************************************************************)
Idle(p) == pc[p] = "idle"

\* A request may start on an idle slot; in serial runs only when no other
\* request is in flight.
CanBegin(p) == Idle(p) /\ (serial => \A q \in Procs : Idle(q))

\* The request of slot p is answered: d2 is the storage it leaves.
Respond(p, op, args, resp, pre, d2, body) ==
  /\ db' = d2
  /\ pc' = [pc EXCEPT ![p] = "idle"]
  /\ req' = [req EXCEPT ![p] = NoReq]
  /\ last' = [op |-> op, args |-> args, resp |-> resp, pre |-> pre,
              post |-> d2, t |-> now, body |-> body]

\* The request of slot p has read and goes on to its commit.
Pend(p, r) ==
  /\ pc' = [pc EXCEPT ![p] = "commit"]
  /\ req' = [req EXCEPT ![p] = r]
  /\ UNCHANGED <<db, last>>

Committing(p, op) == pc[p] = "commit" /\ req[p].op = op

Tick ==
  /\ now < MaxTicks * TickMinutes
  /\ now' = now + TickMinutes
  /\ UNCHANGED <<db, pc, req, last, minted, issued, acked, serial>>

InitCommon ==
  /\ now = 0
  /\ pc = [p \in Procs |-> "idle"]
  /\ req = [p \in Procs |-> NoReq]
  /\ last = NoLast
  /\ minted = {}
  /\ issued = {}
  /\ acked = [view |-> 0, like |-> 0]

(***************************************************************************)
(* Token specification: create_access_token and decode_access_token as     *)
(* functions of their arguments and the clock.                             *)
(***************************************************************************)
MintToken(sub, delta) ==
  /\ Cardinality(minted) < MaxMinted
  /\ LET token == create_access_token([sub |-> sub], delta, now) IN
       /\ minted' = minted \cup {[token |-> token, t0 |-> now, delta |-> delta, sub |-> sub]}
       /\ last' = [op |-> "create_access_token", token |-> token, t |-> now]
  /\ UNCHANGED <<db, now, pc, req, issued, acked, serial>>

DecodeToken(token) ==
  /\ last' = [op |-> "decode_access_token", token |-> token, t |-> now,
              payload |-> decode_access_token(token, now)]
  /\ UNCHANGED <<db, now, pc, req, minted, issued, acked, serial>>

InitToken == InitCommon /\ db = EmptyDb /\ serial = TRUE

NextToken ==
  \/ \E sub \in Subs, delta \in Deltas : MintToken(sub, delta)
  \/ \E token \in TokenDomain : DecodeToken(token)
  \/ Tick

SpecToken == InitToken /\ [][NextToken]_vars

(***************************************************************************)
(* C4 (as claimed): a token created with TTL T at t0 decodes to its claims *)
(* (same sub) at every time before t0 + T and to None at every time after  *)
(* t0 + T, where T is the expires_delta passed, or the default when none   *)
(* is passed; a token not signed with the server secret decodes to None at *)
(* every time.                                                             *)
(***************************************************************************)
RequestedTtl(m) == IF m.delta = NoDelta THEN ACCESS_TOKEN_EXPIRE_MINUTES ELSE m.delta

C4_TokenLivesExactlyItsTtl ==
  /\ \A m \in minted :
       LET payload == decode_access_token(m.token, now) IN
         /\ (now < m.t0 + RequestedTtl(m) => payload.valid /\ payload.sub = m.sub)
         /\ (now > m.t0 + RequestedTtl(m) => ~payload.valid)
  /\ \A token \in TokenDomain :
       token.key # SECRET_KEY => ~decode_access_token(token, now).valid

\* C4, the part the code keeps: the same for every TTL other than zero.
C4_NonZeroTtlRespected ==
  /\ \A m \in minted :
       m.delta # 0 =>
         LET payload == decode_access_token(m.token, now) IN
           /\ (now < m.t0 + RequestedTtl(m) => payload.valid /\ payload.sub = m.sub)
           /\ (now > m.t0 + RequestedTtl(m) => ~payload.valid)
  /\ \A token \in TokenDomain :
       token.key # SECRET_KEY => ~decode_access_token(token, now).valid

(***************************************************************************)
(* Authentication handlers (api/auth.py).                                  *)
(***************************************************************************)
UserData(user) == [kind |-> "user", id |-> user.id, username |-> user.username]

username_taken_never(d, username) == FALSE

\* select(User).where(User.username == username) finds a row
username_taken(d, username) == \E r \in d.users : r.username = username

UserNamed(d, username) == CHOOSE r \in d.users : r.username = username

RegisterRead(p, u, pw) ==
  /\ CanBegin(p)
  /\ LET args == [username |-> u, password |-> pw] IN
       IF ~UserRegister(u, pw)
         THEN Respond(p, "register", args, RequestValidationError, db, db, FALSE)
       ELSE IF PasswordLen(pw) > PasswordMaxLen
         THEN Respond(p, "register", args,
                      JSONResponse(400, 400, DataNull, "password longer than 72 characters"),
                      db, db, TRUE)
       ELSE IF username_taken(db, u)
         THEN Respond(p, "register", args,
                      JSONResponse(409, 409, DataNull, "username already exists"),
                      db, db, TRUE)
       ELSE IF hash_raises(pw)
         THEN Respond(p, "register", args,
                      JSONResponse(400, 400, DataNull, "password malformed or too long"),
                      db, db, TRUE)
       ELSE /\ db.next_id.users <= MaxUsers
            /\ Pend(p, [op |-> "register", args |-> args, snap |-> db,
                        password_hash |-> get_password_hash(pw)])
  /\ UNCHANGED <<now, minted, issued, acked, serial>>

\* db.add(user); commit: the unique index on username refuses a duplicate
\* (IntegrityError, answered by `except Exception`).
RegisterCommit(p) ==
  /\ Committing(p, "register")
  /\ LET r == req[p] IN
       IF \E x \in db.users : x.username = r.args.username
         THEN Respond(p, "register", r.args,
                      JSONResponse(500, 500, DataNull, "registration failed"),
                      r.snap, db, TRUE)
         ELSE LET user == [id |-> db.next_id.users, username |-> r.args.username,
                           password_hash |-> r.password_hash]
              IN Respond(p, "register", r.args,
                         JSONResponse(200, 200, UserData(user), "registered"),
                         r.snap,
                         [db EXCEPT !.users = @ \cup {user}, !.next_id.users = @ + 1],
                         TRUE)
  /\ UNCHANGED <<now, minted, issued, acked, serial>>

TokenData(token, user) ==
  [kind |-> "token", token |-> token, user |-> [id |-> user.id, username |-> user.username]]

login_unknown_user_404(d, u, pw, t) ==
  IF PasswordLen(pw) > PasswordMaxLen
    THEN JSONResponse(400, 400, DataNull, "password longer than 72 characters")
  ELSE IF ~username_taken(d, u)
    THEN JSONResponse(404, 404, DataNull, "user not found")
  ELSE IF hash_raises(pw)
    THEN JSONResponse(400, 400, DataNull, "password malformed or too long")
  ELSE IF ~verify_password(pw, UserNamed(d, u).password_hash)
    THEN JSONResponse(401, 401, DataNull, "username or password incorrect")
  ELSE JSONResponse(200, 200,
         TokenData(create_access_token([sub |-> StrOf(UserNamed(d, u).id)], NoDelta, t),
                   UserNamed(d, u)),
         "login succeeded")

login(d, u, pw, t) ==
  IF PasswordLen(pw) > PasswordMaxLen
    THEN JSONResponse(400, 400, DataNull, "password longer than 72 characters")
  ELSE IF ~username_taken(d, u)
    THEN JSONResponse(401, 401, DataNull, "username or password incorrect")
  ELSE IF hash_raises(pw)
    THEN JSONResponse(400, 400, DataNull, "password malformed or too long")
  ELSE IF ~verify_password(pw, UserNamed(d, u).password_hash)
    THEN JSONResponse(401, 401, DataNull, "username or password incorrect")
  ELSE JSONResponse(200, 200,
         TokenData(create_access_token([sub |-> StrOf(UserNamed(d, u).id)], NoDelta, t),
                   UserNamed(d, u)),
         "login succeeded")

Login(p, u, pw) ==
  /\ CanBegin(p)
  /\ LET resp == IF UserLogin(u, pw) THEN login(db, u, pw, now) ELSE RequestValidationError IN
       /\ Respond(p, "login", [username |-> u, password |-> pw], resp, db, db, UserLogin(u, pw))
       /\ issued' = IF resp.status = 200 /\ Cardinality(issued) < MaxIssued
                      THEN issued \cup {[token |-> resp.data.token, username |-> u]}
                      ELSE issued
  /\ UNCHANGED <<now, minted, acked, serial>>

get_me_first_user(current_user, d) ==
  IF current_user = NoUser
    THEN JSONResponse(401, 401, DataEmpty, "not authenticated")
    ELSE JSONResponse(200, 200, UserData(RowOf(d.users, 1)), "success")

get_me(current_user, d) ==
  IF current_user = NoUser
    THEN JSONResponse(401, 401, DataEmpty, "not authenticated")
    ELSE JSONResponse(200, 200, UserData(current_user), "success")

Me(p, h) ==
  /\ CanBegin(p)
  /\ Respond(p, "me", [header |-> h], get_me(optional_current_user(h, db, now), db), db, db, TRUE)
  /\ UNCHANGED <<now, minted, issued, acked, serial>>

\* A route that declares Depends(get_current_user): the framework answers
\* with the dependency's HTTPException and does not call the route's body.
ProtectedRoute(p, h) ==
  /\ CanBegin(p)
  /\ LET r == get_current_user(h, db, now) IN
       IF r.ok
         THEN Respond(p, "protected", [header |-> h],
                      JSONResponse(200, 200, UserData(r.user), "success"), db, db, TRUE)
         ELSE Respond(p, "protected", [header |-> h], r.error, db, db, FALSE)
  /\ UNCHANGED <<now, minted, issued, acked, serial>>

Schemes == {"Bearer", "bearer", "Basic"}

ServerTokens == { token \in TokenDomain : token.key = SECRET_KEY }

HeaderDomain ==
  {NoHeader, EmptyHeader, Header(0, "", MalformedToken), Header(1, "Bearer", MalformedToken)}
  \cup { Header(3, "Bearer", token) : token \in { x \in ServerTokens : x.sub = StrOf(1) } }
  \cup { Header(2, "Bearer", token) : token \in TokenDomain }
  \cup { Header(2, scheme, token) : scheme \in Schemes, token \in ServerTokens }

\* What the /me requests of the model send.
MeHeaders ==
  {NoHeader, Header(2, "Basic", MalformedToken)} \cup { Bearer(token) : token \in TokenDomain }

InitAuth == InitCommon /\ db = EmptyDb /\ serial = TRUE

NextAuth ==
  \/ \E p \in Procs, u \in Usernames, pw \in Passwords : RegisterRead(p, u, pw)
  \/ \E p \in Procs : RegisterCommit(p)
  \/ \E p \in Procs, u \in Usernames, pw \in Passwords : Login(p, u, pw)
  \/ \E p \in Procs, h \in MeHeaders : Me(p, h)
  \/ Tick

SpecAuth == InitAuth /\ [][NextAuth]_vars

\* The identity dependency over every header, on the storage that
\* registrations build.
NextIdentity ==
  \/ \E p \in Procs, u \in Usernames, pw \in Passwords : RegisterRead(p, u, pw)
  \/ \E p \in Procs : RegisterCommit(p)
  \/ \E p \in Procs, h \in HeaderDomain : ProtectedRoute(p, h)
  \/ Tick

SpecIdentity == InitAuth /\ [][NextIdentity]_vars

(***************************************************************************)
(* C2: registering a username that no row holds answers 200 and stores     *)
(* exactly one new row, with that username; registering it again answers   *)
(* 409 and leaves storage as it was.                                       *)
(***************************************************************************)
C2_RegisterTwice ==
  (last.op = "register" /\ UserRegister(last.args.username, last.args.password)) =>
    IF \E r \in last.pre.users : r.username = last.args.username
      THEN /\ last.resp.status = 409 /\ last.resp.code = 409
           /\ last.post = last.pre
      ELSE /\ last.resp.status = 200 /\ last.resp.code = 200
           /\ \E row \in last.post.users :
                /\ row \notin last.pre.users
                /\ row.username = last.args.username
                /\ last.post.users = last.pre.users \cup {row}
           /\ Cardinality(last.post.users) = Cardinality(last.pre.users) + 1

\* A second registration of a stored username has been answered.
C2_Witness ==
  /\ last.op = "register"
  /\ last.resp.code = 409
  /\ \E r \in db.users : r.username = last.args.username

(***************************************************************************)
(* C3: a login with a username no row holds and a login with a stored      *)
(* username and another password than the one registered get one and the   *)
(* same response: status 401, code 401, the same msg, null data, and no    *)
(* token.                                                                  *)
(***************************************************************************)
LoginRejected(l) ==
  \/ ~\E r \in l.pre.users : r.username = l.args.username
  \/ \E r \in l.pre.users :
       r.username = l.args.username /\ r.password_hash # get_password_hash(l.args.password)

TokenAccepted(token, d, t) ==
  /\ token.key = SECRET_KEY
  /\ token.exp > t
  /\ token.sub # NoSub
  /\ \E u \in d.users : u.id = IntOf(token.sub)

ProtectedOutcome(l, accepted) ==
  IF accepted
    THEN /\ l.resp.status = 200
         /\ l.body
         /\ \E u \in l.pre.users :
              u.id = IntOf(l.args.header.token.sub) /\ l.resp.data = UserData(u)
    ELSE /\ l.resp.status = 401
         /\ ~l.body
         /\ l.post = l.pre

\* C5 (as claimed): a user is returned only for a header of exactly the
\* form 'Bearer <token>' with an accepted token; every other request fails
\* with 401 and the route's body is not run.
C5_OnlyExactBearer ==
  last.op = "protected" =>
    LET h == last.args.header IN
      ProtectedOutcome(last,
        /\ h.kind = "parts"
        /\ h.n = 2
        /\ h.scheme = "Bearer"
        /\ TokenAccepted(h.token, last.pre, last.t))

\* C5 (amended): the same, the scheme word compared without regard to case.
C5_BearerAnyCase ==
  last.op = "protected" =>
    LET h == last.args.header IN
      ProtectedOutcome(last,
        /\ h.kind = "parts"
        /\ h.n = 2
        /\ h.scheme \in {"Bearer", "bearer", "BEARER"}
        /\ TokenAccepted(h.token, last.pre, last.t))

\* The dependency has refused an expired token of a stored user.
C5_Witness ==
  /\ last.op = "protected"
  /\ last.args.header.kind = "parts"
  /\ last.args.header.n = 2
  /\ last.args.header.token.key = SECRET_KEY
  /\ last.args.header.token.exp <= last.t
  /\ IntOf(last.args.header.token.sub) \in Ids(last.pre.users)
  /\ last.resp.status = 401

(***************************************************************************)
(* C6: the token a login returned, sent to GET /api/me before its expiry,  *)
(* is answered 200 with the id and username of the user that logged in;    *)
(* GET /api/me without a token is answered 401.                            *)
(***************************************************************************)
C6_MeAfterLogin ==
  last.op = "me" =>
    /\ \A i \in issued :
         (last.args.header = Bearer(i.token) /\ last.t < i.token.exp) =>
           /\ last.resp.status = 200 /\ last.resp.code = 200
           /\ \E u \in last.pre.users :
                /\ u.username = i.username
                /\ last.resp.data = UserData(u)
    /\ last.args.header = NoHeader =>
         last.resp.status = 401 /\ last.resp.code = 401 /\ ~last.resp.wrapped

\* The second registered user has logged in and read /me with the token.
C6_Witness ==
  /\ last.op = "me"
  /\ \E i \in issued : last.args.header = Bearer(i.token) /\ last.t < i.token.exp
  /\ last.resp.status = 200
  /\ last.resp.data.id = 2
  /\ last.t > 0

(***************************************************************************)
(* Posts and the interaction counters (api/interaction.py).                *)
(***************************************************************************)
Post(id, author_id, category_id, tag_ids, date) ==
  [ id |-> id, title |-> "t", author_id |-> author_id, category_id |-> category_id,
    tags |-> tag_ids, date |-> date, views |-> 0, likes |-> 0 ]

User(id, username, password) ==
  [id |-> id, username |-> username, password_hash |-> get_password_hash(password)]

\* Storage after one registration and one create_post.
OnePostDb ==
  [EmptyDb EXCEPT !.users = {User(1, "alice", "secret-1")},
                  !.posts = {Post(1, 1, Null, {}, 0)},
                  !.next_id.users = 2,
                  !.next_id.posts = 2]

PostIds == 1..2

SetColumnEveryRow(table, id, column, value) ==
  { [r EXCEPT ![column] = value] : r \in table }

SetColumn(table, id, column, value) ==
  { IF r.id = id THEN [r EXCEPT ![column] = value] ELSE r : r \in table }

\* post = await db.get(Post, id); post.<counter> += 1: the new value is
\* computed in the handler from the row it read.
CounterRead(p, op, column, id) ==
  /\ CanBegin(p)
  /\ acked[op] < MaxViewsSeen
  /\ IF id \notin Ids(db.posts)
       THEN Respond(p, op, [id |-> id],
                    JSONResponse(200, 404, DataEmpty, "post not found"), db, db, TRUE)
       ELSE Pend(p, [op |-> op, args |-> [id |-> id], snap |-> db,
                     value |-> RowOf(db.posts, id)[column] + 1])
  /\ UNCHANGED <<now, minted, issued, acked, serial>>

\* db.add(post); await db.commit(): UPDATE post SET <counter> = <value>
\* WHERE id = <id>.  A row deleted meanwhile makes the flush fail, which
\* the global exception handler answers.
CounterCommit(p, op, column, msg) ==
  /\ Committing(p, op)
  /\ LET r == req[p] IN
       IF r.args.id \notin Ids(db.posts)
         THEN /\ Respond(p, op, r.args, JSONResponse(500, 500, DataEmpty, "stale row"),
                         r.snap, db, TRUE)
              /\ acked' = acked
         ELSE /\ Respond(p, op, r.args, JSONResponse(200, 200, DataEmpty, msg), r.snap,
                         [db EXCEPT !.posts = SetColumn(@, r.args.id, column, r.value)], TRUE)
              /\ acked' = [acked EXCEPT ![op] = @ + 1]
  /\ UNCHANGED <<now, minted, issued, serial>>

add_view_read(p, id) == CounterRead(p, "view", "views", id)
add_view_commit(p) == CounterCommit(p, "view", "views", "view +1")
add_like_read(p, id) == CounterRead(p, "like", "likes", id)
add_like_commit(p) == CounterCommit(p, "like", "likes", "like +1")

InitCounter == InitCommon /\ db = OnePostDb /\ serial = FALSE

NextCounter ==
  \/ \E p \in Procs, id \in PostIds : add_view_read(p, id)
  \/ \E p \in Procs : add_view_commit(p)
  \/ \E p \in Procs, id \in PostIds : add_like_read(p, id)
  \/ \E p \in Procs : add_like_commit(p)

SpecCounter == InitCounter /\ [][NextCounter]_vars

(***************************************************************************)
(* C1 (as claimed): once the view requests on the post have all committed, *)
(* its views counter, which started at 0, is the number of requests that   *)
(* were answered 200, whatever the interleaving; the same for like.        *)
(***************************************************************************)
C1_EveryViewCounted ==
  (\A p \in Procs : Idle(p)) =>
    /\ RowOf(db.posts, 1).views = acked.view
    /\ RowOf(db.posts, 1).likes = acked.like

(***************************************************************************)
(* Categories, tags, ticket categories and the rows that reference them    *)
(* (api/categories.py, api/tags.py, api/ticket_categories.py,              *)
(* api/posts.py, api/tickets.py).  Every route here depends on             *)
(* require_current_user: without an identity the body is not run.          *)
(***************************************************************************)
MaxTaxa == 2      \* rows ever created per category / tag / ticket-category table
MaxPosts == 1     \* posts ever created
MaxTickets == 1   \* tickets ever created
MaxRows == 3      \* rows ever created over these five tables together

TaxonNames == {"news", "tips"}
TaxonIds == 1..(MaxTaxa + 1)

Taxon(id, name) == [id |-> id, name |-> name]

Ticket(id, user_id, category_id, created_at) ==
  [id |-> id, title |-> "t", status |-> "open", priority |-> "medium",
   category_id |-> category_id, user_id |-> user_id, created_at |-> created_at,
   updated_at |-> created_at]

\* date.today() at minute t
DayOf(t) == t \div MinutesPerDay

\* Storage after one registration.
OneUserDb ==
  [EmptyDb EXCEPT !.users = {User(1, "alice", "secret-1")}, !.next_id.users = 2]

\* Rows created so far in the tables of this section.
RowsCreated(d) ==
  (d.next_id.categories - 1) + (d.next_id.tags - 1)
    + (d.next_id.posts - 1) + (d.next_id.tickets - 1)

\* The model sends a creating request only while table and section have room.
TaxRoom(table, max) == db.next_id[table] <= max /\ RowsCreated(db) < MaxRows

AliceToken == create_access_token([sub |-> StrOf(1)], NoDelta, 0)

TaxHeaders == {NoHeader, Bearer(AliceToken)}

\* The route's body runs only with an identity; otherwise the dependency's
\* 401 is the answer and storage is untouched.
Protected(p, h, op, args, body) ==
  /\ CanBegin(p)
  /\ LET r == require_current_user(h, db, now) IN
       IF r.ok THEN body ELSE Respond(p, op, args, r.error, db, db, FALSE)
  /\ UNCHANGED <<now, minted, issued, acked, serial>>

\* create_category / create_tag / create_ticket_category: 409 on a stored
\* name, else INSERT and 201.
CreateTaxon(p, h, op, table, name, msg) ==
  Protected(p, h, op, [name |-> name],
    IF \E r \in db[table] : r.name = name
      THEN Respond(p, op, [name |-> name],
                   JSONResponse(409, 409, DataEmpty, msg), db, db, TRUE)
      ELSE Respond(p, op, [name |-> name],
                   JSONResponse(201, 201, DataEmpty, "created"), db,
                   [db EXCEPT ![table] = @ \cup {Taxon(db.next_id[table], name)},
                              !.next_id[table] = @ + 1],
                   TRUE))

create_category(p, h, name) ==
  CreateTaxon(p, h, "create_category", "categories", name, "category already exists")
create_tag(p, h, name) ==
  CreateTaxon(p, h, "create_tag", "tags", name, "tag already exists")
create_ticket_category(p, h, name) ==
  CreateTaxon(p, h, "create_ticket_category", "ticket_categories", name,
              "ticket category already exists")

\* create_post: the tags that exist among tag_ids are attached; a
\* category_id that names no category fails the foreign key at commit.
create_post(p, h, category_id, tag_ids) ==
  LET args == [category_id |-> category_id, tag_ids |-> tag_ids]
      user == require_current_user(h, db, now).user
      tags == IF tag_ids # {} THEN tag_ids \cap Ids(db.tags) ELSE {}
  IN Protected(p, h, "create_post", args,
       IF category_id # Null /\ category_id \notin Ids(db.categories)
         THEN Respond(p, "create_post", args,
                      JSONResponse(500, 500, DataEmpty, "foreign key"), db, db, TRUE)
         ELSE Respond(p, "create_post", args,
                      JSONResponse(201, 201, DataEmpty, "post created"), db,
                      [db EXCEPT !.posts = @ \cup
                                   {Post(db.next_id.posts, user.id, category_id, tags,
                                         DayOf(now))},
                                 !.next_id.posts = @ + 1],
                      TRUE))

\* create_ticket: `if ticket_data.category_id:` looks the category up (a
\* category_id of 0 or None skips the lookup; 0 then fails the foreign key).
create_ticket(p, h, category_id) ==
  LET args == [category_id |-> category_id]
      user == require_current_user(h, db, now).user
  IN Protected(p, h, "create_ticket", args,
       IF category_id \notin {Null, 0} /\ category_id \notin Ids(db.ticket_categories)
         THEN Respond(p, "create_ticket", args,
                      JSONResponse(404, 404, DataEmpty, "category not found"), db, db, TRUE)
       ELSE IF category_id = 0
         THEN Respond(p, "create_ticket", args,
                      JSONResponse(500, 500, DataEmpty, "foreign key"), db, db, TRUE)
         ELSE Respond(p, "create_ticket", args,
                      JSONResponse(201, 201, DataEmpty, "ticket created"), db,
                      [db EXCEPT !.tickets = @ \cup
                                   {Ticket(db.next_id.tickets, user.id, category_id, now)},
                                 !.next_id.tickets = @ + 1],
                      TRUE))

\* delete_post: 404, 403 for another user's post, else DELETE.  The
\* post's comments are not deleted with it: comment.post_id is NOT NULL
\* and references post.id, so the flush fails while a comment of the
\* post is stored (500 from `except Exception`).
delete_post(p, h, id) ==
  LET user == require_current_user(h, db, now).user IN
  Protected(p, h, "delete_post", [header |-> h, id |-> id],
    IF id \notin Ids(db.posts)
      THEN Respond(p, "delete_post", [header |-> h, id |-> id],
                   JSONResponse(404, 404, DataEmpty, "post not found"), db, db, TRUE)
    ELSE IF RowOf(db.posts, id).author_id # user.id
      THEN Respond(p, "delete_post", [header |-> h, id |-> id],
                   JSONResponse(403, 403, DataEmpty, "not authorized"), db, db, TRUE)
    ELSE IF \E c \in db.comments : c.post_id = id
      THEN Respond(p, "delete_post", [header |-> h, id |-> id],
                   JSONResponse(500, 500, DataEmpty, "database error"), db, db, TRUE)
    ELSE Respond(p, "delete_post", [header |-> h, id |-> id],
                 JSONResponse(200, 200, DataEmpty, "post deleted"), db,
                 [db EXCEPT !.posts = @ \ {RowOf(db.posts, id)}], TRUE))

\* delete_ticket: 404, else DELETE.
delete_ticket(p, h, id) ==
  Protected(p, h, "delete_ticket", [id |-> id],
    IF id \notin Ids(db.tickets)
      THEN Respond(p, "delete_ticket", [id |-> id],
                   JSONResponse(404, 404, DataEmpty, "ticket not found"), db, db, TRUE)
      ELSE Respond(p, "delete_ticket", [id |-> id],
                   JSONResponse(200, 200, DataEmpty, "ticket deleted"), db,
                   [db EXCEPT !.tickets = @ \ {RowOf(db.tickets, id)}], TRUE))

category_post_count_zero(d, id) == 0

\* select(func.count(Post.id)).where(Post.category_id == id)
category_post_count(d, id) == Cardinality({ x \in d.posts : x.category_id = id })

\* selectinload(Tag.posts): the posts attached to the tag
tag_posts(d, id) == { x \in d.posts : id \in x.tags }

\* select(func.count(Ticket.id)).where(Ticket.category_id == id)
ticket_category_ticket_count(d, id) ==
  Cardinality({ x \in d.tickets : x.category_id = id })

ForeignKeyBlocksNever(d, table, id) == FALSE

\* The foreign keys post.category_id, post_tag.tag_id and
\* ticket.category_id, as the database enforces them on DELETE.
ForeignKeyBlocks(d, table, id) ==
  CASE table = "categories" -> \E x \in d.posts : x.category_id = id
    [] table = "tags" -> \E x \in d.posts : id \in x.tags
    [] table = "ticket_categories" -> \E x \in d.tickets : x.category_id = id

\* The handler up to `await db.delete(row)`: 404, 400 or on to the commit.
DeleteTaxonRead(p, h, op, table, id, referenced, missing, refused) ==
  Protected(p, h, op, [id |-> id],
    IF id \notin Ids(db[table])
      THEN Respond(p, op, [id |-> id],
                   JSONResponse(404, 404, DataEmpty, missing), db, db, TRUE)
    ELSE IF referenced
      THEN Respond(p, op, [id |-> id],
                   JSONResponse(400, 400, DataEmpty, refused), db, db, TRUE)
    ELSE Pend(p, [op |-> op, args |-> [id |-> id], snap |-> db]))

\* await db.commit(): DELETE of the row; a row gone meanwhile or a
\* reference added meanwhile raises, answered 500 by `except Exception`.
DeleteTaxonCommit(p, op, table, msg) ==
  /\ Committing(p, op)
  /\ LET r == req[p] IN
       IF r.args.id \notin Ids(db[table]) \/ ForeignKeyBlocks(db, table, r.args.id)
         THEN Respond(p, op, r.args,
                      JSONResponse(500, 500, DataEmpty, "database error"), r.snap, db, TRUE)
         ELSE Respond(p, op, r.args, JSONResponse(200, 200, DataEmpty, msg), r.snap,
                      [db EXCEPT ![table] = @ \ {RowOf(db[table], r.args.id)}], TRUE)
  /\ UNCHANGED <<now, minted, issued, acked, serial>>

delete_category_read(p, h, id) ==
  DeleteTaxonRead(p, h, "delete_category", "categories", id,
                  category_post_count(db, id) > 0,
                  "category not found", "category has posts, cannot delete")
delete_category_commit(p) ==
  DeleteTaxonCommit(p, "delete_category", "categories", "category deleted")

delete_tag_read(p, h, id) ==
  DeleteTaxonRead(p, h, "delete_tag", "tags", id,
                  tag_posts(db, id) # {} /\ Cardinality(tag_posts(db, id)) > 0,
                  "tag not found", "tag has posts, cannot delete")
delete_tag_commit(p) == DeleteTaxonCommit(p, "delete_tag", "tags", "tag deleted")

delete_ticket_category_read(p, h, id) ==
  DeleteTaxonRead(p, h, "delete_ticket_category", "ticket_categories", id,
                  ticket_category_ticket_count(db, id) > 0,
                  "ticket category not found", "ticket category has tickets, cannot delete")
delete_ticket_category_commit(p) ==
  DeleteTaxonCommit(p, "delete_ticket_category", "ticket_categories",
                    "ticket category deleted")

\* What create_post and create_ticket send.
CategoryRefs == {Null} \cup 1..MaxTaxa
TagRefs == {{}, {1}, 1..MaxTaxa}

InitTax == InitCommon /\ db = OneUserDb /\ serial = TRUE

NextTax ==
  \/ \E p \in Procs, name \in TaxonNames :
       TaxRoom("categories", MaxTaxa) /\ create_category(p, Bearer(AliceToken), name)
  \/ \E p \in Procs, name \in TaxonNames :
       TaxRoom("tags", MaxTaxa) /\ create_tag(p, Bearer(AliceToken), name)
  \/ \E p \in Procs, name \in TaxonNames :
       /\ TaxRoom("ticket_categories", MaxTaxa)
       /\ create_ticket_category(p, Bearer(AliceToken), name)
  \/ \E p \in Procs, c \in CategoryRefs, ts \in TagRefs :
       TaxRoom("posts", MaxPosts) /\ create_post(p, Bearer(AliceToken), c, ts)
  \/ \E p \in Procs, c \in CategoryRefs :
       TaxRoom("tickets", MaxTickets) /\ create_ticket(p, Bearer(AliceToken), c)
  \/ \E p \in Procs, id \in 1..MaxPosts : delete_post(p, Bearer(AliceToken), id)
  \/ \E p \in Procs, id \in 1..MaxTickets : delete_ticket(p, Bearer(AliceToken), id)
  \/ \E p \in Procs, h \in TaxHeaders, id \in TaxonIds : delete_category_read(p, h, id)
  \/ \E p \in Procs : delete_category_commit(p)
  \/ \E p \in Procs, h \in TaxHeaders, id \in TaxonIds : delete_tag_read(p, h, id)
  \/ \E p \in Procs : delete_tag_commit(p)
  \/ \E p \in Procs, h \in TaxHeaders, id \in TaxonIds :
       delete_ticket_category_read(p, h, id)
  \/ \E p \in Procs : delete_ticket_category_commit(p)

SpecTax == InitTax /\ [][NextTax]_vars

(***************************************************************************)
(* C7: with requests handled one after the other, an authenticated         *)
(* delete_category, delete_tag or delete_ticket_category answers 404 and   *)
(* changes nothing when no row has the id; answers 400 and changes nothing *)
(* when a post (ticket) references the row; and otherwise answers 200 and  *)
(* removes exactly that row.                                               *)
(***************************************************************************)
DeleteRoutes ==
  { [op |-> "delete_category", table |-> "categories"],
    [op |-> "delete_tag", table |-> "tags"],
    [op |-> "delete_ticket_category", table |-> "ticket_categories"] }

ReferencingRows(d, table, id) ==
  CASE table = "categories" -> { x.id : x \in { y \in d.posts : y.category_id = id } }
    [] table = "tags" -> { x.id : x \in { y \in d.posts : id \in y.tags } }
    [] table = "ticket_categories" ->
         { x.id : x \in { y \in d.tickets : y.category_id = id } }

C7_DeleteRefusedWhileReferenced ==
  \A k \in DeleteRoutes :
    (last.op = k.op /\ last.body) =>
      LET id == last.args.id
          rows == last.pre[k.table]
      IN IF id \notin Ids(rows)
           THEN last.resp.status = 404 /\ last.post = last.pre
         ELSE IF ReferencingRows(last.pre, k.table, id) # {}
           THEN last.resp.status = 400 /\ last.post = last.pre
         ELSE /\ last.resp.status = 200
              /\ last.post = [last.pre EXCEPT ![k.table] = rows \ {RowOf(rows, id)}]

\* a tag that a post carries was refused while another tag was stored
C7_Witness ==
  /\ last.op = "delete_tag"
  /\ last.resp.status = 400
  /\ Cardinality(last.pre.tags) = 2
  /\ last.args.id \in Ids(db.tags)

(***************************************************************************)
(* Comments (api/comments.py).  The routes depend on the permissive        *)
(* identity dependency: create_comment links the comment to the user when  *)
(* there is one, delete_comment answers 401 itself when there is none.     *)
(***************************************************************************)
MaxComments == 3    \* comments ever created

CommentOfFirstUser(id, post_id, parent_id, user_id, created_at) ==
  [ id |-> id, post_id |-> post_id, parent_id |-> parent_id, author_name |-> "n",
    content |-> "c", created_at |-> created_at, user_id |-> 1 ]

CommentOwnParent(id, post_id, parent_id, user_id, created_at) ==
  [ id |-> id, post_id |-> post_id, parent_id |-> id, author_name |-> "n",
    content |-> "c", created_at |-> created_at, user_id |-> user_id ]

Comment(id, post_id, parent_id, user_id, created_at) ==
  [ id |-> id, post_id |-> post_id, parent_id |-> parent_id, author_name |-> "n",
    content |-> "c", created_at |-> created_at, user_id |-> user_id ]

\* Storage after one registration and two create_post.
TwoPostsDb ==
  [OneUserDb EXCEPT !.posts = {Post(1, 1, Null, {}, 0), Post(2, 1, Null, {}, 0)},
                    !.next_id.posts = 3]

CommentPostIds == 1..3
ParentIds == {Null, 0} \cup 1..MaxComments
CommentIds == 1..(MaxComments + 1)

\* The request body of POST /comments, author_name and content being valid.
CommentCreate(post_id, parent_id) == [post_id |-> post_id, parent_id |-> parent_id]

\* `if comment_data.parent_id:` holds for an integer other than 0
Truthy(n) == n # Null /\ n # 0

\* the handler looks the parent up only under `if comment_data.parent_id:`
parent_checked(parent_id) == Truthy(parent_id)

parent_of_any_post(d, parent_id, post_id) == { c \in d.comments : c.id = parent_id }

\* select(Comment).where(Comment.id == parent_id, Comment.post_id == post_id)
parent_of(d, parent_id, post_id) ==
  { c \in d.comments : c.id = parent_id /\ c.post_id = post_id }

\* The handler up to db.add(comment).
create_comment_read(p, h, post_id, parent_id) ==
  /\ CanBegin(p)
  /\ LET args == [header |-> h, post_id |-> post_id, parent_id |-> parent_id]
         comment_data == CommentCreate(post_id, parent_id)
         current_user == optional_current_user(h, db, now)
     IN IF comment_data.post_id \notin Ids(db.posts)
          THEN Respond(p, "create_comment", args,
                       JSONResponse(404, 404, DataEmpty, "post not found"), db, db, TRUE)
        ELSE IF /\ parent_checked(comment_data.parent_id)
                /\ parent_of(db, comment_data.parent_id, comment_data.post_id) = {}
          THEN Respond(p, "create_comment", args,
                       JSONResponse(404, 404, DataEmpty, "parent comment not found"),
                       db, db, TRUE)
        ELSE /\ db.next_id.comments <= MaxComments
             /\ Pend(p, [op |-> "create_comment", args |-> args, snap |-> db,
                         user_id |-> IF current_user # NoUser THEN current_user.id
                                     ELSE Null])
  /\ UNCHANGED <<now, minted, issued, acked, serial>>

\* await db.commit(): INSERT; the foreign keys comment.post_id -> post.id
\* and comment.parent_id -> comment.id are checked by the database, and a
\* failure is answered 500 by `except Exception`.
create_comment_commit(p) ==
  /\ Committing(p, "create_comment")
  /\ LET r == req[p]
         a == r.args
         row == Comment(db.next_id.comments, a.post_id, a.parent_id, r.user_id, now)
     IN IF \/ a.post_id \notin Ids(db.posts)
           \/ (a.parent_id # Null /\ a.parent_id \notin Ids(db.comments))
          THEN Respond(p, "create_comment", a,
                       JSONResponse(500, 500, DataEmpty, "database error"), r.snap, db, TRUE)
          ELSE Respond(p, "create_comment", a,
                       JSONResponse(201, 201, DataEmpty, "comment created"), r.snap,
                       [db EXCEPT !.comments = @ \cup {row}, !.next_id.comments = @ + 1],
                       TRUE)
  /\ UNCHANGED <<now, minted, issued, acked, serial>>

\* select(Comment).where(Comment.parent_id == id)
children(d, id) == { c \in d.comments : c.parent_id = id }

detach_dropping(comments, kids) ==
  { IF c \in kids THEN [c EXCEPT !.parent_id = Null] ELSE c :
      c \in { x \in comments : x.parent_id \notin { k.id : k \in kids } } }

detach_cascading(comments, kids) == comments \ kids

\* for child in children: child.parent_id = None
detach(comments, kids) ==
  { IF c \in kids THEN [c EXCEPT !.parent_id = Null] ELSE c : c \in comments }

\* The handler up to `await db.delete(comment)`.
delete_comment_read(p, h, id) ==
  /\ CanBegin(p)
  /\ LET args == [header |-> h, id |-> id]
         current_user == optional_current_user(h, db, now)
     IN IF current_user = NoUser
          THEN Respond(p, "delete_comment", args,
                       JSONResponse(401, 401, DataEmpty, "not authenticated"), db, db, TRUE)
        ELSE IF id \notin Ids(db.comments)
          THEN Respond(p, "delete_comment", args,
                       JSONResponse(404, 404, DataEmpty, "comment not found"), db, db, TRUE)
        ELSE IF RowOf(db.comments, id).user_id # current_user.id
          THEN Respond(p, "delete_comment", args,
                       JSONResponse(403, 403, DataEmpty, "not authorized"), db, db, TRUE)
        ELSE Pend(p, [op |-> "delete_comment", args |-> args, snap |-> db,
                      kids |-> { c.id : c \in children(db, id) }])
  /\ UNCHANGED <<now, minted, issued, acked, serial>>

\* await db.commit(): UPDATE of the children read, DELETE of the comment;
\* a reply stored meanwhile still references the comment and the foreign
\* key refuses the DELETE, and a child or the comment deleted meanwhile
\* leaves its UPDATE or DELETE without a row (500 either way).
delete_comment_commit(p) ==
  /\ Committing(p, "delete_comment")
  /\ LET r == req[p]
         id == r.args.id
         kids == { c \in db.comments : c.id \in r.kids }
         detached == detach(db.comments, kids)
     IN IF \/ id \notin Ids(db.comments)
           \/ ~(r.kids \subseteq Ids(db.comments))
           \/ children([comments |-> detached], id) # {}
          THEN Respond(p, "delete_comment", r.args,
                       JSONResponse(500, 500, DataEmpty, "database error"), r.snap, db, TRUE)
          ELSE Respond(p, "delete_comment", r.args,
                       JSONResponse(200, 200, DataEmpty, "comment deleted"), r.snap,
                       [db EXCEPT !.comments = detached \ {RowOf(detached, id)}], TRUE)
  /\ UNCHANGED <<now, minted, issued, acked, serial>>

InitComments == InitCommon /\ db = TwoPostsDb /\ serial = TRUE

NextComments ==
  \/ \E p \in Procs, h \in TaxHeaders, post_id \in CommentPostIds, parent_id \in ParentIds :
       create_comment_read(p, h, post_id, parent_id)
  \/ \E p \in Procs : create_comment_commit(p)
  \/ \E p \in Procs, h \in TaxHeaders, id \in CommentIds : delete_comment_read(p, h, id)
  \/ \E p \in Procs : delete_comment_commit(p)

SpecComments == InitComments /\ [][NextComments]_vars

(***************************************************************************)
(* C8 (as claimed): a create_comment on a stored post whose parent_id is   *)
(* given and names no comment stored under that post is answered 404       *)
(* "parent comment not found" and stores no comment, whatever the          *)
(* parent_id value.                                                        *)
(***************************************************************************)
NamesNoParent(l) ==
  /\ l.args.post_id \in Ids(l.pre.posts)
  /\ l.args.parent_id # Null
  /\ ~\E c \in l.pre.comments : c.id = l.args.parent_id /\ c.post_id = l.args.post_id

C8_BadParentAnswered404 ==
  (last.op = "create_comment" /\ NamesNoParent(last)) =>
    /\ last.resp.status = 404
    /\ last.resp.msg = "parent comment not found"
    /\ last.post = last.pre

\* What the code does keep of C8: no such request stores a comment, and
\* every parent_id other than 0 is answered 404.
C8_BadParentStoresNothing ==
  (last.op = "create_comment" /\ NamesNoParent(last)) =>
    /\ last.post = last.pre
    /\ last.args.parent_id # 0 =>
         last.resp.status = 404 /\ last.resp.msg = "parent comment not found"

(***************************************************************************)
(* C9: with requests handled one after the other, delete_comment sent by   *)
(* the user the comment is linked to answers 200 and removes exactly that  *)
(* comment; each direct reply stays with parent_id null and its other      *)
(* fields as they were, and every other comment, replies of replies        *)
(* included, stays as it was.                                              *)
(***************************************************************************)
SentByLinkedUser(l) ==
  /\ l.args.id \in Ids(l.pre.comments)
  /\ \E u \in l.pre.users :
       /\ l.args.header = Bearer(create_access_token([sub |-> StrOf(u.id)], NoDelta, 0))
       /\ RowOf(l.pre.comments, l.args.id).user_id = u.id

MaxListed == 3    \* rows ever created over the three listed tables together
MaxPage == 3      \* largest page requested
MaxSize == 2      \* largest size requested

QuickReply(id, created_at) ==
  [ id |-> id, title |-> "t", content |-> "c", category |-> "", use_count |-> 0,
    created_at |-> created_at ]

\* create_quick_reply (title and content given): INSERT; the response
\* carries code 201 under HTTP status 200.
create_quick_reply(p) ==
  /\ CanBegin(p)
  /\ Respond(p, "create_quick_reply", [title |-> "t"],
             JSONResponse(200, 201, DataEmpty, "quick reply created successfully"), db,
             [db EXCEPT !.quick_replies = @ \cup {QuickReply(db.next_id.quick_replies, now)},
                        !.next_id.quick_replies = @ + 1],
             TRUE)
  /\ UNCHANGED <<now, minted, issued, acked, serial>>

\* Every order the rows of a table can take.
Orders(rows) ==
  { f \in [1..Cardinality(rows) -> rows] :
      \A i, j \in 1..Cardinality(rows) : i # j => f[i] # f[j] }

\* ORDER BY <column> DESC: any order the database may return, rows with
\* equal keys in any order.
order_by_desc(rows, column) ==
  { f \in Orders(rows) :
      \A i \in 1..(Cardinality(rows) - 1) : f[i][column] >= f[i + 1][column] }

offset_unshifted(page, size) == page * size

\* .offset((page - 1) * size)
offset(page, size) == (page - 1) * size

\* OFFSET o LIMIT n over an ordered result
offset_limit(ordered, o, n) == SubSeq(ordered, o + 1, Min(Len(ordered), o + n))

PageData(page, size, total, rows) ==
  [kind |-> "page", page |-> page, size |-> size, total |-> total,
   rows |-> [i \in 1..Len(rows) |-> rows[i].id]]

\* Query(1, ge=1) on page and size, then the count and the page of rows.
ListRows(p, op, table, column, page, size, status) ==
  /\ CanBegin(p)
  /\ LET args == [page |-> page, size |-> size] IN
       IF page < 1 \/ size < 1
         THEN Respond(p, op, args, RequestValidationError, db, db, FALSE)
         ELSE \E ordered \in order_by_desc(db[table], column) :
                Respond(p, op, args,
                        JSONResponse(status, 200,
                                     PageData(page, size, Cardinality(db[table]),
                                              offset_limit(ordered, offset(page, size), size)),
                                     "success"),
                        db, db, TRUE)
  /\ UNCHANGED <<now, minted, issued, acked, serial>>

list_posts(p, page, size) == ListRows(p, "list_posts", "posts", "date", page, size, 200)
list_tickets(p, page, size) ==
  ListRows(p, "list_tickets", "tickets", "created_at", page, size, 200)
list_quick_replies(p, page, size) ==
  ListRows(p, "list_quick_replies", "quick_replies", "created_at", page, size, 200)

RowsListed(d) ==
  (d.next_id.posts - 1) + (d.next_id.tickets - 1) + (d.next_id.quick_replies - 1)

\* The model creates a row only while the listed tables have room.
ListRoom == RowsListed(db) < MaxListed

Pages == 0..MaxPage
Sizes == 0..MaxSize

InitPage == InitCommon /\ db = OneUserDb /\ serial = TRUE

NextPage ==
  \/ \E p \in Procs : ListRoom /\ create_post(p, Bearer(AliceToken), Null, {})
  \/ \E p \in Procs : ListRoom /\ create_ticket(p, Bearer(AliceToken), Null)
  \/ \E p \in Procs : ListRoom /\ create_quick_reply(p)
  \/ \E p \in Procs, page \in Pages, size \in Sizes : list_posts(p, page, size)
  \/ \E p \in Procs, page \in Pages, size \in Sizes : list_tickets(p, page, size)
  \/ \E p \in Procs, page \in Pages, size \in Sizes : list_quick_replies(p, page, size)
  \/ Tick

SpecPage == InitPage /\ [][NextPage]_vars

(***************************************************************************)
(* C10: an unfiltered list request for page p >= 1 and size s >= 1 over a  *)
(* table of n rows answers with min(s, max(0, n - (p-1)*s)) rows and       *)
(* total = n, for posts, tickets and quick replies alike.                  *)
(***************************************************************************)
ListRoutes ==
  { [op |-> "list_posts", table |-> "posts"],
    [op |-> "list_tickets", table |-> "tickets"],
    [op |-> "list_quick_replies", table |-> "quick_replies"] }

C10_PageHoldsItsShare ==
  \A k \in ListRoutes :
    (last.op = k.op /\ last.args.page >= 1 /\ last.args.size >= 1) =>
      LET n == Cardinality(last.pre[k.table])
          pg == last.args.page
          sz == last.args.size
      IN /\ last.resp.data.kind = "page"
         /\ Len(last.resp.data.rows) = Min(sz, Max(0, n - (pg - 1) * sz))
         /\ last.resp.data.total = n

\* three tickets in pages of two: the second page holds the last one
C10_Witness ==
  /\ last.op = "list_tickets"
  /\ Cardinality(last.pre.tickets) = 3
  /\ last.args = [page |-> 2, size |-> 2]
  /\ Len(last.resp.data.rows) = 1
  /\ last.resp.data.total = 3

(***************************************************************************)
(* GET /api/posts with filters (api/posts.py, list_posts).  A filter that  *)
(* is None or the empty string is not applied (`if search:` ...).          *)
(***************************************************************************)
MaxFilterPage == 2    \* largest page and size requested with filters
MaxFiltered == 2      \* posts ever created in the filter specification

NoFilter == ""
NoDate == Null

\* Post.title.contains(search), over one-word titles
Contains(text, search) == text = search

Filters(search, category, tag, date) ==
  [search |-> search, category |-> category, tag |-> tag, date |-> date]

\* The criteria that the handler appends to the statement.
where_criteria(f) ==
  (IF f.search # NoFilter THEN {"search"} ELSE {})
    \cup (IF f.category # NoFilter THEN {"category"} ELSE {})
    \cup (IF f.tag # NoFilter THEN {"tag"} ELSE {})
    \cup (IF f.date # NoDate THEN {"date"} ELSE {})

\* The rows of the page statement: joins on category and tags, WHERE on
\* every criterion.
filtered_posts(d, f) ==
  { x \in d.posts :
      /\ f.search # NoFilter => Contains(x.title, f.search)
      /\ f.category # NoFilter =>
           \E c \in d.categories : c.id = x.category_id /\ c.name = f.category
      /\ f.tag # NoFilter => \E t \in d.tags : t.id \in x.tags /\ t.name = f.tag
      /\ f.date # NoDate => x.date = f.date }

\* `if stmt.whereclause`: None without criteria; a single `column == value`
\* criterion is a BinaryExpression whose truth value is the identity of
\* its two sides (False); any other clause has no truth value (TypeError).
whereclause_truth(f) ==
  LET criteria == where_criteria(f) IN
    IF criteria = {} THEN "none"
    ELSE IF Cardinality(criteria) = 1 /\ criteria # {"search"} THEN "false"
    ELSE "raises"

\* total_count = len(all rows of select(Post)) when the test is false
count_posts(d, f) == Cardinality(d.posts)

list_posts_where(p, page, size, f) ==
  /\ CanBegin(p)
  /\ LET args == [page |-> page, size |-> size, filters |-> f] IN
       IF page < 1 \/ size < 1
         THEN Respond(p, "list_posts_where", args, RequestValidationError, db, db, FALSE)
       ELSE IF whereclause_truth(f) = "raises"
         THEN Respond(p, "list_posts_where", args,
                      JSONResponse(500, 500, DataEmpty,
                                   "Boolean value of this clause is not defined"),
                      db, db, TRUE)
       ELSE \E ordered \in order_by_desc(filtered_posts(db, f), "date") :
              Respond(p, "list_posts_where", args,
                      JSONResponse(200, 200,
                                   PageData(page, size, count_posts(db, f),
                                            offset_limit(ordered, offset(page, size), size)),
                                   "success"),
                      db, db, TRUE)
  /\ UNCHANGED <<now, minted, issued, acked, serial>>

FilterDomain ==
  { Filters(search, category, tag, date) :
      search \in {NoFilter, "t"}, category \in {NoFilter, "news"},
      tag \in {NoFilter, "tips"}, date \in {NoDate, 0} }

InitFilter == InitCommon /\ db = OneUserDb /\ serial = TRUE

NextFilter ==
  \/ \E p \in Procs, name \in TaxonNames :
       TaxRoom("categories", MaxTaxa) /\ create_category(p, Bearer(AliceToken), name)
  \/ \E p \in Procs, name \in TaxonNames :
       TaxRoom("tags", MaxTaxa) /\ create_tag(p, Bearer(AliceToken), name)
  \/ \E p \in Procs, c \in CategoryRefs, ts \in TagRefs :
       TaxRoom("posts", MaxFiltered) /\ create_post(p, Bearer(AliceToken), c, ts)
  \/ \E p \in Procs, page \in 1..MaxFilterPage, size \in 1..MaxFilterPage,
        f \in FilterDomain : list_posts_where(p, page, size, f)

SpecFilter == InitFilter /\ [][NextFilter]_vars

(***************************************************************************)
(* C11 (as claimed): the total of a GET /api/posts answered 200 is the     *)
(* number of posts that satisfy every supplied filter, whatever the page   *)
(* and size.                                                               *)
(***************************************************************************)
Satisfying(d, f) ==
  { x \in d.posts :
      /\ f.search # NoFilter => x.title = f.search
      /\ f.category # NoFilter =>
           \E c \in d.categories : c.id = x.category_id /\ c.name = f.category
      /\ f.tag # NoFilter => \E t \in d.tags : t.id \in x.tags /\ t.name = f.tag
      /\ f.date # NoDate => x.date = f.date }

C11_TotalCountsMatches ==
  (last.op = "list_posts_where" /\ last.resp.status = 200) =>
    last.resp.data.total = Cardinality(Satisfying(last.pre, last.args.filters))

\* What the code does: one `==` filter alone is answered with the rows
\* that satisfy it and the number of all posts as total; a search, or two
\* filters together, is answered 500.
C11_TotalCountsAllPosts ==
  last.op = "list_posts_where" =>
    LET f == last.args.filters
        given == { k \in {"search", "category", "tag", "date"} :
                     f[k] # (IF k = "date" THEN NoDate ELSE NoFilter) }
    IN IF given = {} \/ (Cardinality(given) = 1 /\ given # {"search"})
         THEN /\ last.resp.status = 200
              /\ last.resp.data.total = Cardinality(last.pre.posts)
              /\ \A i \in 1..Len(last.resp.data.rows) :
                   last.resp.data.rows[i] \in Ids(Satisfying(last.pre, f))
         ELSE last.resp.status = 500

(***************************************************************************)
(* Ownership: update_post and delete_post (api/posts.py) and               *)
(* delete_comment (api/comments.py) compare the row's user with the        *)
(* requester.                                                              *)
(***************************************************************************)
MaxOwned == 2    \* rows ever created over posts and comments together

\* A body field that the request leaves out (None).
NoText == "<none>"
NoTagIds == {Null}

PostUpdate(title, category_id, tag_ids) ==
  [title |-> title, category_id |-> category_id, tag_ids |-> tag_ids]

\* `if post_data.<field> is not None: post.<field> = post_data.<field>`
\* (summary and content are assigned like title)
updated_post(post, post_data) ==
  [post EXCEPT !.title = IF post_data.title # NoText THEN post_data.title ELSE @,
               !.category_id = IF post_data.category_id # Null
                                 THEN post_data.category_id ELSE @]

\* update_post: 404, 403 for another user's post, else the assignments and
\* the commit.  `post.tags = tags` replaces a collection that the handler
\* has not loaded; the load it needs cannot run outside the session's
\* await, so a body with tag_ids raises (500).  A category_id that names
\* no category fails the foreign key (500).
update_post(p, h, id, post_data) ==
  LET user == require_current_user(h, db, now).user
      args == [header |-> h, id |-> id, body |-> post_data]
  IN Protected(p, h, "update_post", args,
       IF id \notin Ids(db.posts)
         THEN Respond(p, "update_post", args,
                      JSONResponse(404, 404, DataEmpty, "post not found"), db, db, TRUE)
       ELSE IF RowOf(db.posts, id).author_id # user.id
         THEN Respond(p, "update_post", args,
                      JSONResponse(403, 403, DataEmpty, "not authorized"), db, db, TRUE)
       ELSE IF post_data.tag_ids # NoTagIds
         THEN Respond(p, "update_post", args,
                      JSONResponse(500, 500, DataEmpty, "MissingGreenlet"), db, db, TRUE)
       ELSE IF /\ post_data.category_id # Null
               /\ post_data.category_id \notin Ids(db.categories)
         THEN Respond(p, "update_post", args,
                      JSONResponse(500, 500, DataEmpty, "database error"), db, db, TRUE)
       ELSE Respond(p, "update_post", args,
                    JSONResponse(200, 200, DataEmpty, "post updated"), db,
                    [db EXCEPT !.posts = (@ \ {RowOf(db.posts, id)})
                                 \cup {updated_post(RowOf(db.posts, id), post_data)}],
                    TRUE))

\* Storage after two registrations, one create_category and one create_tag.
TwoUsersDb ==
  [OneUserDb EXCEPT !.users = @ \cup {User(2, "bob", "secret-2")},
                    !.next_id.users = 3,
                    !.categories = {Taxon(1, "news")}, !.next_id.categories = 2,
                    !.tags = {Taxon(1, "tips")}, !.next_id.tags = 2]

BobToken == create_access_token([sub |-> StrOf(2)], NoDelta, 0)

OwnerHeaders == {Bearer(AliceToken), Bearer(BobToken)}

RowsOwned(d) == (d.next_id.posts - 1) + (d.next_id.comments - 1)
OwnedRoom == RowsOwned(db) < MaxOwned

PostUpdates ==
  { PostUpdate(title, category_id, tag_ids) :
      title \in {NoText, "u"}, category_id \in {Null, 1}, tag_ids \in {NoTagIds, {1}} }

InitOwner == InitCommon /\ db = TwoUsersDb /\ serial = TRUE

NextOwner ==
  \/ \E p \in Procs, h \in OwnerHeaders : OwnedRoom /\ create_post(p, h, Null, {})
  \/ \E p \in Procs, h \in OwnerHeaders \cup {NoHeader} :
       OwnedRoom /\ create_comment_read(p, h, 1, Null)
  \/ \E p \in Procs : create_comment_commit(p)
  \/ \E p \in Procs, h \in OwnerHeaders, id \in 1..MaxOwned, post_data \in PostUpdates :
       update_post(p, h, id, post_data)
  \/ \E p \in Procs, h \in OwnerHeaders, id \in 1..MaxOwned : delete_post(p, h, id)
  \/ \E p \in Procs, h \in OwnerHeaders, id \in 1..MaxOwned : delete_comment_read(p, h, id)
  \/ \E p \in Procs : delete_comment_commit(p)

SpecOwner == InitOwner /\ [][NextOwner]_vars

(***************************************************************************)
(* C12 (as claimed): update_post and delete_post by an authenticated user  *)
(* other than the post's author, and delete_comment by one other than the  *)
(* comment's linked user, answer 403 and change no row; by the creating    *)
(* user the same calls succeed.                                            *)
(***************************************************************************)
Requester(l) == optional_current_user(l.args.header, l.pre, l.t)

OwnedRoutes ==
  { [op |-> "update_post", table |-> "posts", owner |-> "author_id"],
    [op |-> "delete_post", table |-> "posts", owner |-> "author_id"],
    [op |-> "delete_comment", table |-> "comments", owner |-> "user_id"] }

C12_OnlyTheCreatorAndTheCreatorAlways ==
  \A k \in OwnedRoutes :
    (last.op = k.op /\ Requester(last) # NoUser
       /\ last.args.id \in Ids(last.pre[k.table])) =>
      IF RowOf(last.pre[k.table], last.args.id)[k.owner] # Requester(last).id
        THEN last.resp.status = 403 /\ last.post = last.pre
        ELSE last.resp.status = 200

\* What the code does keep of C12: another user's call is answered 403 and
\* changes nothing, and no call is answered 403 to the creating user.
C12_OthersRefused ==
  \A k \in OwnedRoutes :
    (last.op = k.op /\ Requester(last) # NoUser
       /\ last.args.id \in Ids(last.pre[k.table])) =>
      IF RowOf(last.pre[k.table], last.args.id)[k.owner] # Requester(last).id
        THEN last.resp.status = 403 /\ last.post = last.pre
        ELSE last.resp.status # 403

(***************************************************************************)
(* Partial updates: update_post (above) and update_ticket                  *)
(* (api/tickets.py).                                                       *)
(***************************************************************************)
MaxUpdated == 2    \* rows ever created over posts, tickets and ticket categories

TicketUpdate(title, status, category_id) ==
  [title |-> title, status |-> status, category_id |-> category_id]

\* `if ticket_data.<field> is not None: ticket.<field> = ...` (description
\* and priority are assigned like title and status), then
\* ticket.updated_at = datetime.now(timezone.utc)
updated_ticket(ticket, ticket_data, t) ==
  [ticket EXCEPT !.title = IF ticket_data.title # NoText THEN ticket_data.title ELSE @,
                 !.status = IF ticket_data.status # NoText THEN ticket_data.status ELSE @,
                 !.category_id = IF ticket_data.category_id # Null
                                   THEN ticket_data.category_id ELSE @,
                 !.updated_at = t]

\* update_ticket: 404 for an unknown ticket, 404 for a category_id that
\* `if ticket_data.category_id:` looks up in vain; a category_id of 0
\* skips the lookup and fails the foreign key (500).
update_ticket(p, h, id, ticket_data) ==
  LET args == [header |-> h, id |-> id, body |-> ticket_data] IN
  Protected(p, h, "update_ticket", args,
    IF id \notin Ids(db.tickets)
      THEN Respond(p, "update_ticket", args,
                   JSONResponse(404, 404, DataEmpty, "ticket not found"), db, db, TRUE)
    ELSE IF /\ Truthy(ticket_data.category_id)
            /\ ticket_data.category_id \notin Ids(db.ticket_categories)
      THEN Respond(p, "update_ticket", args,
                   JSONResponse(404, 404, DataEmpty, "category not found"), db, db, TRUE)
    ELSE IF ticket_data.category_id = 0
      THEN Respond(p, "update_ticket", args,
                   JSONResponse(500, 500, DataEmpty, "database error"), db, db, TRUE)
    ELSE Respond(p, "update_ticket", args,
                 JSONResponse(200, 200, DataEmpty, "ticket updated"), db,
                 [db EXCEPT !.tickets = (@ \ {RowOf(db.tickets, id)})
                              \cup {updated_ticket(RowOf(db.tickets, id), ticket_data, now)}],
                 TRUE))

RowsUpdated(d) ==
  (d.next_id.posts - 1) + (d.next_id.tickets - 1) + (d.next_id.ticket_categories - 1)
UpdateRoom == RowsUpdated(db) < MaxUpdated

TicketUpdates ==
  { TicketUpdate(title, status, category_id) :
      title \in {NoText, "u"}, status \in {NoText, "closed"}, category_id \in {Null, 0, 1} }

PostUpdatesAll ==
  { PostUpdate(title, category_id, tag_ids) :
      title \in {NoText, "u"}, category_id \in {Null, 1},
      tag_ids \in {NoTagIds, {}, {1}} }

InitUpdate == InitCommon /\ db = TwoUsersDb /\ serial = TRUE

NextUpdate ==
  \/ \E p \in Procs, ts \in {{}, {1}} :
       UpdateRoom /\ create_post(p, Bearer(AliceToken), Null, ts)
  \/ \E p \in Procs : UpdateRoom /\ create_ticket(p, Bearer(AliceToken), Null)
  \/ \E p \in Procs :
       UpdateRoom /\ create_ticket_category(p, Bearer(AliceToken), "news")
  \/ \E p \in Procs, post_data \in PostUpdatesAll :
       update_post(p, Bearer(AliceToken), 1, post_data)
  \/ \E p \in Procs, ticket_data \in TicketUpdates :
       update_ticket(p, Bearer(BobToken), 1, ticket_data)
  \/ Tick

SpecUpdate == InitUpdate /\ [][NextUpdate]_vars

(***************************************************************************)
(* C15 (as claimed): an update changes only the fields its body carries:   *)
(* an omitted field keeps its value, a post's id, author_id, date, views   *)
(* and likes and a ticket's id, user_id and created_at never change, no    *)
(* other row changes, and a tag_ids list in the body of an update_post     *)
(* sent by the author becomes the post's tag set.                          *)
(***************************************************************************)
UpdateKeeps(before, after, body, fields, fixed) ==
  /\ \A c \in fixed : after[c] = before[c]
  /\ \A c \in fields : body[c] = NoText => after[c] = before[c]
  /\ body.category_id = Null => after.category_id = before.category_id

C15_FrameOfUpdate ==
  /\ last.op \in {"update_post", "update_ticket"} =>
       LET table == IF last.op = "update_post" THEN "posts" ELSE "tickets"
           id == last.args.id
       IN /\ last.post = [last.pre EXCEPT ![table] = last.post[table]]
          /\ Ids(last.post[table]) = Ids(last.pre[table])
          /\ \A r \in last.pre[table] : r.id # id => r \in last.post[table]
          /\ id \in Ids(last.pre[table]) =>
               IF last.op = "update_post"
                 THEN UpdateKeeps(RowOf(last.pre.posts, id), RowOf(last.post.posts, id),
                                  last.args.body, {"title"},
                                  {"id", "author_id", "date", "views", "likes"})
                 ELSE UpdateKeeps(RowOf(last.pre.tickets, id), RowOf(last.post.tickets, id),
                                  last.args.body, {"title", "status"},
                                  {"id", "user_id", "created_at"})

C15_UpdatesOnlyWhatIsSent ==
  /\ C15_FrameOfUpdate
  /\ ( /\ last.op = "update_post"
       /\ last.args.id \in Ids(last.pre.posts)
       /\ last.args.body.category_id \in {Null} \cup Ids(last.pre.categories) ) =>
       LET before == RowOf(last.pre.posts, last.args.id)
           after == RowOf(last.post.posts, last.args.id)
           body == last.args.body
       IN after.tags = IF body.tag_ids = NoTagIds THEN before.tags
                       ELSE body.tag_ids \cap Ids(last.pre.tags)

(***************************************************************************)
(* Unique names under interleaving: the create and update handlers of      *)
(* categories, tags and ticket categories as a read step (the existence    *)
(* check) and a commit step (the INSERT / UPDATE, where the unique index   *)
(* on name decides), next to register.                                     *)
(***************************************************************************)
\* The handler up to db.add(row): 409 on a name that a stored row holds.
CreateTaxonRead(p, h, op, table, name, msg) ==
  Protected(p, h, op, [name |-> name],
    IF \E r \in db[table] : r.name = name
      THEN Respond(p, op, [name |-> name],
                   JSONResponse(409, 409, DataEmpty, msg), db, db, TRUE)
      ELSE Pend(p, [op |-> op, args |-> [name |-> name], snap |-> db]))

unique_index_off(d, table, id, name) == FALSE

\* name = Column(String(..), unique=True, ..): the index refuses a write that
\* would give row `id` a name another stored row holds (id = Null for a new
\* row).
unique_index_refuses(d, table, id, name) ==
  \E x \in d[table] : x.name = name /\ x.id # id

\* await db.commit(): the INSERT; a row that took the name meanwhile makes
\* the unique index refuse it, answered 500 by `except Exception`.
CreateTaxonCommit(p, op, table) ==
  /\ Committing(p, op)
  /\ LET r == req[p] IN
       IF unique_index_refuses(db, table, Null, r.args.name)
         THEN Respond(p, op, r.args,
                      JSONResponse(500, 500, DataEmpty, "Duplicate entry"), r.snap, db, TRUE)
         ELSE Respond(p, op, r.args,
                      JSONResponse(201, 201, DataEmpty, "created"), r.snap,
                      [db EXCEPT ![table] = @ \cup {Taxon(db.next_id[table], r.args.name)},
                                 !.next_id[table] = @ + 1],
                      TRUE)
  /\ UNCHANGED <<now, minted, issued, acked, serial>>

create_category_read(p, h, name) ==
  CreateTaxonRead(p, h, "create_category", "categories", name, "category already exists")
create_category_commit(p) == CreateTaxonCommit(p, "create_category", "categories")
create_tag_read(p, h, name) ==
  CreateTaxonRead(p, h, "create_tag", "tags", name, "tag already exists")
create_tag_commit(p) == CreateTaxonCommit(p, "create_tag", "tags")
create_ticket_category_read(p, h, name) ==
  CreateTaxonRead(p, h, "create_ticket_category", "ticket_categories", name,
                  "ticket category already exists")
create_ticket_category_commit(p) ==
  CreateTaxonCommit(p, "create_ticket_category", "ticket_categories")

name_held_by_other_never(d, table, id, name) == FALSE

\* select(<Model>).where(<Model>.name == name, <Model>.id != id)
name_held_by_other(d, table, id, name) ==
  \E r \in d[table] : r.name = name /\ r.id # id

\* update_category / update_tag up to the assignment: 404 on an unknown
\* id, 409 on a name that another row holds.  update_ticket_category makes
\* the same check under `if category_data.name:`, which holds whenever
\* the body carries a name.
UpdateTaxonRead(p, h, op, table, id, name, missing, taken) ==
  Protected(p, h, op, [id |-> id, name |-> name],
    IF id \notin Ids(db[table])
      THEN Respond(p, op, [id |-> id, name |-> name],
                   JSONResponse(404, 404, DataEmpty, missing), db, db, TRUE)
    ELSE IF name_held_by_other(db, table, id, name)
      THEN Respond(p, op, [id |-> id, name |-> name],
                   JSONResponse(409, 409, DataEmpty, taken), db, db, TRUE)
    ELSE Pend(p, [op |-> op, args |-> [id |-> id, name |-> name], snap |-> db]))

\* await db.commit(): UPDATE ... SET name; refused by the unique index when
\* another row took the name meanwhile, and failing when the row is gone
\* (500 from `except Exception`).
UpdateTaxonCommit(p, op, table, msg) ==
  /\ Committing(p, op)
  /\ LET r == req[p]
         id == r.args.id
     IN IF id \notin Ids(db[table]) \/ unique_index_refuses(db, table, id, r.args.name)
          THEN Respond(p, op, r.args,
                       JSONResponse(500, 500, DataEmpty, "database error"), r.snap, db, TRUE)
          ELSE Respond(p, op, r.args, JSONResponse(200, 200, DataEmpty, msg), r.snap,
                       [db EXCEPT ![table] = (@ \ {RowOf(db[table], id)})
                                    \cup {[RowOf(db[table], id) EXCEPT !.name = r.args.name]}],
                       TRUE)
  /\ UNCHANGED <<now, minted, issued, acked, serial>>

update_category_read(p, h, id, name) ==
  UpdateTaxonRead(p, h, "update_category", "categories", id, name,
                  "category not found", "category name already exists")
update_category_commit(p) ==
  UpdateTaxonCommit(p, "update_category", "categories", "category updated")
update_tag_read(p, h, id, name) ==
  UpdateTaxonRead(p, h, "update_tag", "tags", id, name,
                  "tag not found", "tag name already exists")
update_tag_commit(p) == UpdateTaxonCommit(p, "update_tag", "tags", "tag updated")
update_ticket_category_read(p, h, id, name) ==
  UpdateTaxonRead(p, h, "update_ticket_category", "ticket_categories", id, name,
                  "ticket category not found", "ticket category name already exists")
update_ticket_category_commit(p) ==
  UpdateTaxonCommit(p, "update_ticket_category", "ticket_categories",
                    "ticket category updated")

MaxRaced == 2    \* rows ever created over categories and tags

RaceUsernames == {"alice", "bob"}

RowsRaced(d) ==
  (d.next_id.categories - 1) + (d.next_id.tags - 1)
RaceRoom == RowsRaced(db) < MaxRaced

InitRace == InitCommon /\ db = OneUserDb /\ serial = FALSE

\* register and the creates of categories and tags, interleaved.
NextRace ==
  \/ \E p \in Procs, u \in RaceUsernames : RegisterRead(p, u, "secret-1")
  \/ \E p \in Procs : RegisterCommit(p)
  \/ \E p \in Procs, name \in TaxonNames :
       RaceRoom /\ create_category_read(p, Bearer(AliceToken), name)
  \/ \E p \in Procs : create_category_commit(p)
  \/ \E p \in Procs, name \in TaxonNames :
       RaceRoom /\ create_tag_read(p, Bearer(AliceToken), name)
  \/ \E p \in Procs : create_tag_commit(p)

SpecRace == InitRace /\ [][NextRace]_vars

\* register and the creates and updates of categories and tags, interleaved.
NextNames ==
  \/ \E p \in Procs, u \in RaceUsernames : RegisterRead(p, u, "secret-1")
  \/ \E p \in Procs : RegisterCommit(p)
  \/ \E p \in Procs, name \in TaxonNames :
       RaceRoom /\ create_category_read(p, Bearer(AliceToken), name)
  \/ \E p \in Procs : create_category_commit(p)
  \/ \E p \in Procs, name \in TaxonNames :
       RaceRoom /\ create_tag_read(p, Bearer(AliceToken), name)
  \/ \E p \in Procs : create_tag_commit(p)
  \/ \E p \in Procs, id \in 1..MaxRaced, name \in TaxonNames :
       update_category_read(p, Bearer(AliceToken), id, name)
  \/ \E p \in Procs : update_category_commit(p)
  \/ \E p \in Procs, id \in 1..MaxRaced, name \in TaxonNames :
       update_tag_read(p, Bearer(AliceToken), id, name)
  \/ \E p \in Procs : update_tag_commit(p)

SpecNames == InitRace /\ [][NextNames]_vars

(***************************************************************************)
(* C13 (as claimed): a create_category, create_tag or register request that *)
(* does not insert because a stored row holds its name is answered 409,    *)
(* also when another create of the same name committed between its         *)
(* existence check and its commit; and it adds no second row of that name. *)
(* (create_ticket_category has the same code; its table is not defined in  *)
(* models.py, so its index is left out.)                                   *)
(***************************************************************************)
CreateRoutes ==
  { [op |-> "create_category", table |-> "categories", column |-> "name", key |-> "name"],
    [op |-> "create_tag", table |-> "tags", column |-> "name", key |-> "name"],
    [op |-> "register", table |-> "users", column |-> "username", key |-> "username"] }

Holders(d, k, value) == { r \in d[k.table] : r[k.column] = value }

C13_DuplicateAnswered409 ==
  \A k \in CreateRoutes :
    (last.op = k.op /\ last.body /\ last.resp.status \notin {200, 201}
       /\ Holders(last.post, k, last.args[k.key]) # {}) =>
      /\ last.resp.status = 409
      /\ Cardinality(Holders(last.post, k, last.args[k.key])) = 1

\* What the code does keep of C13: the name is never stored twice, and a
\* create that meets the name at its existence check is answered 409; one
\* that meets it only at its commit is answered 500.
C13_DuplicateNotStored ==
  \A k \in CreateRoutes :
    (last.op = k.op /\ last.body /\ last.resp.status \notin {200, 201}
       /\ Holders(last.post, k, last.args[k.key]) # {}) =>
      /\ last.resp.status =
           IF Holders(last.pre, k, last.args[k.key]) # {} THEN 409 ELSE 500
      /\ Cardinality(Holders(last.post, k, last.args[k.key])) = 1

(***************************************************************************)
(* C20: in every reachable state, whatever the interleaving of register,   *)
(* create_category / update_category and create_tag / update_tag, no two   *)
(* user rows share a username, no two category rows a name and no two tag  *)
(* rows a name.                                                            *)
(***************************************************************************)
C20_NamesUnique ==
  /\ \A x, y \in db.users : x.username = y.username => x = y
  /\ \A x, y \in db.categories : x.name = y.name => x = y
  /\ \A x, y \in db.tags : x.name = y.name => x = y

\* two creates of one name were in flight together and one of them was
\* refused at its commit
C20_Witness ==
  /\ last.op \in {"create_category", "create_tag", "register"}
  /\ last.resp.status = 500
  /\ \A k \in CreateRoutes :
       last.op = k.op =>
         /\ Holders(last.pre, k, last.args[k.key]) = {}
         /\ Cardinality(Holders(db, k, last.args[k.key])) = 1

(***************************************************************************)
(* Renaming, one request at a time.                                        *)
(***************************************************************************)
MaxRenamed == 4    \* rows ever created over the three name tables

RowsRenamed(d) ==
  (d.next_id.categories - 1) + (d.next_id.tags - 1) + (d.next_id.ticket_categories - 1)
RenameRoom(table) == db.next_id[table] <= MaxTaxa /\ RowsRenamed(db) < MaxRenamed

\* ids sent: the stored ones and one that is never stored
RenameIds == 1..(MaxTaxa + 1)

InitRename == InitCommon /\ db = OneUserDb /\ serial = TRUE

NextRename ==
  \/ \E p \in Procs, name \in TaxonNames :
       RenameRoom("categories") /\ create_category(p, Bearer(AliceToken), name)
  \/ \E p \in Procs, name \in TaxonNames :
       RenameRoom("tags") /\ create_tag(p, Bearer(AliceToken), name)
  \/ \E p \in Procs, name \in TaxonNames :
       RenameRoom("ticket_categories") /\ create_ticket_category(p, Bearer(AliceToken), name)
  \/ \E p \in Procs, id \in RenameIds, name \in TaxonNames :
       update_category_read(p, Bearer(AliceToken), id, name)
  \/ \E p \in Procs : update_category_commit(p)
  \/ \E p \in Procs, id \in RenameIds, name \in TaxonNames :
       update_tag_read(p, Bearer(AliceToken), id, name)
  \/ \E p \in Procs : update_tag_commit(p)
  \/ \E p \in Procs, id \in RenameIds, name \in TaxonNames :
       update_ticket_category_read(p, Bearer(AliceToken), id, name)
  \/ \E p \in Procs : update_ticket_category_commit(p)

SpecRename == InitRename /\ [][NextRename]_vars

RenameRoutes ==
  { [op |-> "update_category", table |-> "categories"],
    [op |-> "update_tag", table |-> "tags"],
    [op |-> "update_ticket_category", table |-> "ticket_categories"] }

\* the rows of the table, other than row id, that bear the name
OtherBearers(d, table, id, name) == { r \in d[table] : r.id # id /\ r.name = name }

(***************************************************************************)
(* C16: with requests handled one at a time, update_category, update_tag   *)
(* and update_ticket_category answer 404 on an unknown id; answer 409 and  *)
(* leave every row as it was when a different stored row holds the new     *)
(* name; and otherwise (the row's own name, or an unused one) answer 200   *)
(* with the row bearing the new name and every other row as it was.        *)
(***************************************************************************)
C16_RenameRevalidatesUniqueness ==
  \A k \in RenameRoutes :
    (last.op = k.op /\ last.body) =>
      LET id == last.args.id
          name == last.args.name
          before == last.pre[k.table]
          after == last.post[k.table]
      IN IF id \notin Ids(before)
           THEN last.resp.status = 404 /\ last.resp.code = 404 /\ last.post = last.pre
         ELSE IF OtherBearers(last.pre, k.table, id, name) # {}
           THEN last.resp.status = 409 /\ last.resp.code = 409 /\ last.post = last.pre
         ELSE /\ last.resp.status = 200 /\ last.resp.code = 200
              /\ RowOf(after, id) = [RowOf(before, id) EXCEPT !.name = name]
              /\ { r \in after : r.id # id } = { r \in before : r.id # id }
              /\ \A t \in DOMAIN last.pre \ {k.table} : last.post[t] = last.pre[t]

\* a rename to the name of another stored row was refused
C16_Witness ==
  \E k \in RenameRoutes :
    /\ last.op = k.op /\ last.body
    /\ last.args.id \in Ids(last.pre[k.table])
    /\ OtherBearers(last.pre, k.table, last.args.id, last.args.name) # {}
    /\ last.resp.status = 409

(***************************************************************************)
(* The interaction counters, one request at a time, over two posts.        *)
(***************************************************************************)
\* ids sent: the two stored posts and one that is not stored
CountedIds == 1..3

InitSequential == InitCommon /\ db = TwoPostsDb /\ serial = TRUE

NextSequential ==
  \/ \E p \in Procs, id \in CountedIds : add_view_read(p, id)
  \/ \E p \in Procs : add_view_commit(p)
  \/ \E p \in Procs, id \in CountedIds : add_like_read(p, id)
  \/ \E p \in Procs : add_like_commit(p)

SpecSequential == InitSequential /\ [][NextSequential]_vars

CounterRoutes ==
  { [op |-> "view", column |-> "views"], [op |-> "like", column |-> "likes"] }

\* the sum of a counter over the stored posts (ids 1 and 2 here)
Total(d, column) == RowOf(d.posts, 1)[column] + RowOf(d.posts, 2)[column]

(***************************************************************************)
(* C14: with requests handled one after the other, a view (like) request   *)
(* on a stored post answers code 200, raises that post's views (likes) by  *)
(* exactly 1 and leaves the post's other fields, the other posts and the   *)
(* other tables as they were; a request on an unknown id answers code 404  *)
(* and changes no row; and after k answered calls the counters, which      *)
(* started at 0, add up to k.                                              *)
(***************************************************************************)
C14_OneCallOneIncrement ==
  /\ \A k \in CounterRoutes :
       last.op = k.op =>
         LET id == last.args.id IN
           IF id \notin Ids(last.pre.posts)
             THEN last.resp.code = 404 /\ last.post = last.pre
             ELSE /\ last.resp.code = 200
                  /\ RowOf(last.post.posts, id) =
                       [RowOf(last.pre.posts, id) EXCEPT ![k.column] = @ + 1]
                  /\ { r \in last.post.posts : r.id # id } =
                       { r \in last.pre.posts : r.id # id }
                  /\ \A t \in DOMAIN last.pre \ {"posts"} : last.post[t] = last.pre[t]
  /\ (\A p \in Procs : Idle(p)) =>
       /\ Total(db, "views") = acked.view
       /\ Total(db, "likes") = acked.like

\* the third view of one post has been answered, after a like of the other
C14_Witness ==
  /\ last.op = "view"
  /\ last.resp.code = 200
  /\ RowOf(db.posts, last.args.id).views = 3
  /\ acked.like > 0
  /\ RowOf(db.posts, last.args.id).likes = 0

(***************************************************************************)
(* The comment tree of a post (api/comments.py, build_comment_tree and     *)
(* get_post_comments).  build_comment_tree is a pure function of the list  *)
(* it is given; the lists are drawn at Init rather than built through      *)
(* create_comment, so that they include rows whose parent is not in the    *)
(* list.                                                                   *)
(***************************************************************************)
MaxTree == 4       \* comments stored under the post

AbsentParent == 0  \* a parent_id that names no comment of the list

CommentNode(comment, replies) ==
  [id |-> comment.id, post_id |-> comment.post_id, parent_id |-> comment.parent_id,
   replies |-> replies]

build_comment_tree_top_only(comments, parent_id) ==
  LET top == SelectSeq(comments, LAMBDA c : c.parent_id = parent_id)
  IN [i \in 1..Len(top) |-> CommentNode(top[i], <<>>)]

\* for comment in comments[i..]: if comment.parent_id == parent_id:
\*   result.append({..., "replies": build_comment_tree(comments, comment.id)})
RECURSIVE tree_from(_, _, _)
tree_from(comments, i, parent_id) ==
  IF i > Len(comments) THEN <<>>
  ELSE LET comment == comments[i] IN
         (IF comment.parent_id = parent_id
            THEN <<CommentNode(comment, tree_from(comments, 1, comment.id))>>
            ELSE <<>>)
         \o tree_from(comments, i + 1, parent_id)

build_comment_tree(comments, parent_id) == tree_from(comments, 1, parent_id)

\* ORDER BY <column> ASC: any order the database may return
order_by_asc(rows, column) ==
  { f \in Orders(rows) :
      \A i \in 1..(Cardinality(rows) - 1) : f[i][column] <= f[i + 1][column] }

CommentsData(tree) == [kind |-> "comments", comments |-> tree]

\* GET /posts/{post_id}/comments
get_post_comments(p, post_id) ==
  /\ CanBegin(p)
  /\ IF post_id \notin Ids(db.posts)
       THEN Respond(p, "get_post_comments", [post_id |-> post_id, comments |-> <<>>],
                    JSONResponse(404, 404, DataEmpty, "post not found"), db, db, TRUE)
       ELSE \E comments \in order_by_asc({ c \in db.comments : c.post_id = post_id },
                                         "created_at") :
              Respond(p, "get_post_comments", [post_id |-> post_id, comments |-> comments],
                      JSONResponse(200, 200, CommentsData(build_comment_tree(comments, Null)),
                                   "success"),
                      db, db, TRUE)
  /\ UNCHANGED <<now, minted, issued, acked, serial>>

\* The comment tables drawn: comments 1..n of post 1, created in the order
\* of their ids, each with no parent, a parent created before it, or a
\* parent that is not in the list.
TreeParents(id) == {Null, AbsentParent} \cup 1..(id - 1)

TreeTables ==
  UNION { { { Comment(id, 1, parent[id], Null, id) : id \in 1..n } :
            parent \in { f \in [1..n -> {Null, AbsentParent} \cup 1..n] :
                           \A id \in 1..n : f[id] \in TreeParents(id) } } :
          n \in 0..MaxTree }

InitTree ==
  /\ InitCommon
  /\ serial = TRUE
  /\ \E rows \in TreeTables :
       db = [TwoPostsDb EXCEPT !.comments = rows,
                               !.next_id.comments = Cardinality(rows) + 1]

NextTree == \E p \in Procs, post_id \in CommentPostIds : get_post_comments(p, post_id)

SpecTree == InitTree /\ [][NextTree]_vars

\* every node of a forest, parents before their replies
RECURSIVE NodesOf(_)
NodesOf(forest) ==
  IF forest = <<>> THEN <<>>
  ELSE <<Head(forest)>> \o NodesOf(Head(forest).replies) \o NodesOf(Tail(forest))

IdsOf(seq) == [i \in 1..Len(seq) |-> seq[i].id]

\* the ids of the list's comments that name the parent, in the list's order
RepliesTo(comments, parent_id) ==
  IdsOf(SelectSeq(comments, LAMBDA c : c.parent_id = parent_id))

\* the comment's chain of parents ends at a null parent within the list
RECURSIVE Rooted(_, _)
Rooted(comments, c) ==
  \/ c.parent_id = Null
  \/ \E i \in 1..Len(comments) :
       comments[i].id = c.parent_id /\ comments[i].id < c.id /\ Rooted(comments, comments[i])

Occurrences(seq, id) == Cardinality({ i \in 1..Len(seq) : seq[i].id = id })

(***************************************************************************)
(* C17: the tree get_post_comments answers with, built by                  *)
(* build_comment_tree from the post's comments in creation order, has the  *)
(* comments with a null parent as its top-level nodes, in the list's       *)
(* order; the replies of the node with id X are the comments with          *)
(* parent_id = X, in the list's order; every comment whose chain of        *)
(* parents ends at a null parent is in the tree exactly once; and a        *)
(* comment whose parent is not in the list, and every descendant of it, is *)
(* not in the tree.                                                        *)
(***************************************************************************)
C17_TreeNestsReplies ==
  (last.op = "get_post_comments" /\ last.resp.status = 200) =>
    LET comments == last.args.comments
        tree == last.resp.data.comments
        nodes == NodesOf(tree)
    IN /\ IdsOf(tree) = RepliesTo(comments, Null)
       /\ \A i \in 1..Len(nodes) :
            /\ IdsOf(nodes[i].replies) = RepliesTo(comments, nodes[i].id)
            /\ \A j \in 1..Len(nodes[i].replies) :
                 nodes[i].replies[j].parent_id = nodes[i].id
       /\ \A i \in 1..Len(comments) :
            Occurrences(nodes, comments[i].id) =
              IF Rooted(comments, comments[i]) THEN 1 ELSE 0

\* a tree with a nested reply was answered for a list that also holds a
\* comment with an absent parent and a reply to that comment
C17_Witness ==
  /\ last.op = "get_post_comments" /\ last.resp.status = 200
  /\ LET comments == last.args.comments
         tree == last.resp.data.comments
     IN /\ Len(comments) = MaxTree
        /\ \E i, j \in 1..Len(comments) :
             /\ comments[i].parent_id = AbsentParent
             /\ comments[j].parent_id = comments[i].id
        /\ Len(tree) = 1
        /\ Len(tree[1].replies) = 1

(***************************************************************************)
(* register and login at the edges of the length limits, one request at a  *)
(* time.                                                                   *)
(***************************************************************************)
LengthUsernames == {"al", "bob", "u-50", "u-51"}
LengthPasswords == {"pw-5", "pw-6", "pw-72", "long-73"}

InitLengths == InitCommon /\ db = EmptyDb /\ serial = TRUE

NextLengths ==
  \/ \E p \in Procs, u \in LengthUsernames, pw \in LengthPasswords : RegisterRead(p, u, pw)
  \/ \E p \in Procs : RegisterCommit(p)
  \/ \E p \in Procs, u \in LengthUsernames, pw \in LengthPasswords : Login(p, u, pw)

SpecLengths == InitLengths /\ [][NextLengths]_vars

Within(n, lo, hi) == lo <= n /\ n <= hi

global_exception_handler(exc) == JSONResponse(500, 500, DataEmpty, exc)

\* GET /siteinfo: the module never imports `select`, so the first line of
\* the handler raises NameError, which no try/except catches.
get_siteinfo(p) ==
  /\ CanBegin(p)
  /\ Respond(p, "get_siteinfo", [header |-> NoHeader],
             global_exception_handler("name 'select' is not defined"), db, db, TRUE)
  /\ UNCHANGED <<now, minted, issued, acked, serial>>

NextEnvelope ==
  \/ \E p \in Procs, u \in Usernames, pw \in Passwords : RegisterRead(p, u, pw)
  \/ \E p \in Procs : RegisterCommit(p)
  \/ \E p \in Procs, u \in Usernames, pw \in Passwords : Login(p, u, pw)
  \/ \E p \in Procs, h \in MeHeaders : Me(p, h)
  \/ \E p \in Procs, h \in MeHeaders : ProtectedRoute(p, h)
  \/ \E p \in Procs : get_siteinfo(p)

SpecEnvelope == InitAuth /\ [][NextEnvelope]_vars

Failed(l) == l.op # "none" /\ l.resp.status >= 400

(***************************************************************************)
(* C18 (as claimed): every failing request -- refused by validation, by    *)
(* the identity dependency, by a handler, or by an exception no handler    *)
(* catches -- is answered with a body whose top level is the envelope      *)
(* {code, data, msg}.                                                      *)
(***************************************************************************)
C18_EveryFailureEnveloped == Failed(last) => ~last.resp.wrapped

\* What the code does keep of C18: a failure answered by a handler's own
\* code or by the global exception handler has the envelope at top level;
\* one answered before the handler runs (validation, the raising identity
\* dependency) has it, if at all, under "detail".
C18_FailuresOfTheBodyEnveloped == Failed(last) => (last.resp.wrapped <=> ~last.body)

(***************************************************************************)
(* References to categories under interleaving: create_post / update_post  *)
(* against delete_category, create_ticket / update_ticket against          *)
(* delete_ticket_category.  create_post and update_post touch the category *)
(* only in their commit (no lookup before it); create_ticket and           *)
(* update_ticket look the category up and write in a later await.          *)
(***************************************************************************)
MaxReferring == 1   \* posts ever created, and tickets ever created

\* create_ticket up to db.add(ticket)
create_ticket_read(p, h, category_id) ==
  LET args == [category_id |-> category_id] IN
  Protected(p, h, "create_ticket", args,
    IF Truthy(category_id) /\ category_id \notin Ids(db.ticket_categories)
      THEN Respond(p, "create_ticket", args,
                   JSONResponse(404, 404, DataEmpty, "category not found"), db, db, TRUE)
      ELSE Pend(p, [op |-> "create_ticket", args |-> args, snap |-> db,
                    user_id |-> require_current_user(h, db, now).user.id]))

\* await db.commit(): the INSERT, refused by the foreign key when the
\* category is not stored (500 from `except Exception`).
create_ticket_commit(p) ==
  /\ Committing(p, "create_ticket")
  /\ LET r == req[p]
         category_id == r.args.category_id
     IN IF category_id # Null /\ category_id \notin Ids(db.ticket_categories)
          THEN Respond(p, "create_ticket", r.args,
                       JSONResponse(500, 500, DataEmpty, "foreign key"), r.snap, db, TRUE)
          ELSE Respond(p, "create_ticket", r.args,
                       JSONResponse(201, 201, DataEmpty, "ticket created"), r.snap,
                       [db EXCEPT !.tickets = @ \cup
                                    {Ticket(db.next_id.tickets, r.user_id, category_id, now)},
                                  !.next_id.tickets = @ + 1],
                       TRUE)
  /\ UNCHANGED <<now, minted, issued, acked, serial>>

\* update_ticket up to the assignments
update_ticket_read(p, h, id, ticket_data) ==
  LET args == [header |-> h, id |-> id, body |-> ticket_data] IN
  Protected(p, h, "update_ticket", args,
    IF id \notin Ids(db.tickets)
      THEN Respond(p, "update_ticket", args,
                   JSONResponse(404, 404, DataEmpty, "ticket not found"), db, db, TRUE)
    ELSE IF /\ Truthy(ticket_data.category_id)
            /\ ticket_data.category_id \notin Ids(db.ticket_categories)
      THEN Respond(p, "update_ticket", args,
                   JSONResponse(404, 404, DataEmpty, "category not found"), db, db, TRUE)
    ELSE Pend(p, [op |-> "update_ticket", args |-> args, snap |-> db]))

\* await db.commit(): the UPDATE, refused when the ticket is gone or the
\* foreign key finds no such category (500).
update_ticket_commit(p) ==
  /\ Committing(p, "update_ticket")
  /\ LET r == req[p]
         id == r.args.id
         ticket_data == r.args.body
     IN IF \/ id \notin Ids(db.tickets)
           \/ /\ ticket_data.category_id # Null
              /\ ticket_data.category_id \notin Ids(db.ticket_categories)
          THEN Respond(p, "update_ticket", r.args,
                       JSONResponse(500, 500, DataEmpty, "database error"), r.snap, db, TRUE)
          ELSE Respond(p, "update_ticket", r.args,
                       JSONResponse(200, 200, DataEmpty, "ticket updated"), r.snap,
                       [db EXCEPT !.tickets = (@ \ {RowOf(db.tickets, id)})
                                    \cup {updated_ticket(RowOf(db.tickets, id), ticket_data,
                                                         now)}],
                       TRUE)
  /\ UNCHANGED <<now, minted, issued, acked, serial>>

\* Storage after one registration, one create_category and one
\* create_ticket_category.
ReferredDb ==
  [OneUserDb EXCEPT !.categories = {Taxon(1, "news")}, !.next_id.categories = 2,
                    !.ticket_categories = {Taxon(1, "news")},
                    !.next_id.ticket_categories = 2]

\* the bodies the updates of this specification send
RefsPostUpdates == {PostUpdate(NoText, 1, NoTagIds)}
RefsTicketUpdates == {TicketUpdate(NoText, NoText, 1)}

InitRefs == InitCommon /\ db = ReferredDb /\ serial = FALSE

NextRefs ==
  \/ \E p \in Procs, c \in {Null, 1} :
       /\ db.next_id.posts <= MaxReferring
       /\ create_post(p, Bearer(AliceToken), c, {})
  \/ \E p \in Procs, post_data \in RefsPostUpdates :
       update_post(p, Bearer(AliceToken), 1, post_data)
  \/ \E p \in Procs : delete_category_read(p, Bearer(AliceToken), 1)
  \/ \E p \in Procs : delete_category_commit(p)
  \/ \E p \in Procs, c \in {Null, 1} :
       /\ db.next_id.tickets <= MaxReferring
       /\ create_ticket_read(p, Bearer(AliceToken), c)
  \/ \E p \in Procs : create_ticket_commit(p)
  \/ \E p \in Procs, ticket_data \in RefsTicketUpdates :
       update_ticket_read(p, Bearer(AliceToken), 1, ticket_data)
  \/ \E p \in Procs : update_ticket_commit(p)
  \/ \E p \in Procs : delete_ticket_category_read(p, Bearer(AliceToken), 1)
  \/ \E p \in Procs : delete_ticket_category_commit(p)

SpecRefs == InitRefs /\ [][NextRefs]_vars

(***************************************************************************)
(* C21: whatever the interleaving of create_post / update_post with        *)
(* delete_category and of create_ticket / update_ticket with               *)
(* delete_ticket_category, every post's category_id is null or the id of a *)
(* stored category, every ticket's category_id is null or the id of a      *)
(* stored ticket category, and a delete that removed a category or ticket  *)
(* category left no post or ticket naming it.                              *)
(***************************************************************************)
C21_ReferencesStayValid ==
  /\ \A x \in db.posts : x.category_id = Null \/ x.category_id \in Ids(db.categories)
  /\ \A x \in db.tickets :
       x.category_id = Null \/ x.category_id \in Ids(db.ticket_categories)
  /\ (last.op = "delete_category" /\ last.resp.status = 200) =>
       \A x \in last.post.posts : x.category_id # last.args.id
  /\ (last.op = "delete_ticket_category" /\ last.resp.status = 200) =>
       \A x \in last.post.tickets : x.category_id # last.args.id

\* a delete_category that found no post at its count was refused at its
\* commit, a post of the category having been stored meanwhile
C21_Witness ==
  /\ last.op = "delete_category"
  /\ last.resp.status = 500
  /\ category_post_count(last.pre, last.args.id) = 0
  /\ category_post_count(db, last.args.id) > 0
  /\ last.args.id \in Ids(db.categories)

(***************************************************************************)
(* Comment threads under interleaving: create_comment and delete_comment,  *)
(* each request free to run between the awaits of another.                 *)
(***************************************************************************)
ThreadPostIds == 1..2
\* the last comment the budget allows has no room for a reply
ThreadParentIds == {Null} \cup 1..(MaxComments - 1)

InitThread == InitCommon /\ db = TwoPostsDb /\ serial = FALSE

NextThread ==
  \/ \E p \in Procs, post_id \in ThreadPostIds, parent_id \in ThreadParentIds :
       create_comment_read(p, Bearer(AliceToken), post_id, parent_id)
  \/ \E p \in Procs : create_comment_commit(p)
  \/ \E p \in Procs, id \in 1..MaxComments :
       delete_comment_read(p, Bearer(AliceToken), id)
  \/ \E p \in Procs : delete_comment_commit(p)

SpecThread == InitThread /\ [][NextThread]_vars

(***************************************************************************)
(* C22: whatever the sequence and interleaving of create_comment and       *)
(* delete_comment, every stored comment with a non-null parent_id has a    *)
(* stored parent of that id, and the parent is a comment of the same post. *)
(***************************************************************************)
C22_ParentOnSamePost ==
  \A c \in db.comments :
    c.parent_id # Null =>
      \E parent \in db.comments : parent.id = c.parent_id /\ parent.post_id = c.post_id

\* a reply is stored on each post, and a reply that named its post's
\* comment from the other post was turned away
C22_Witness ==
  /\ last.op = "create_comment"
  /\ last.resp.status = 404
  /\ last.args.post_id \in Ids(db.posts)
  /\ \E c \in db.comments : c.id = last.args.parent_id /\ c.post_id # last.args.post_id
  /\ \E c \in db.comments : c.parent_id # Null

\* the ids met by following parent_id from the comments `ids`, at most k
\* times
RECURSIVE AncestorsWithin(_, _, _)
AncestorsWithin(comments, ids, k) ==
  IF k = 0 \/ ids = {} THEN {}
  ELSE LET parents == { c.parent_id : c \in { x \in comments : x.id \in ids } } \ {Null}
       IN parents \cup AncestorsWithin(comments, parents, k - 1)

\* the number of nested calls build_comment_tree made for a forest
RECURSIVE DepthOf(_)
DepthOf(forest) ==
  IF forest = <<>> THEN 0
  ELSE Max(1 + DepthOf(Head(forest).replies), DepthOf(Tail(forest)))

CommentsOf(d, post_id) == { c \in d.comments : c.post_id = post_id }

(***************************************************************************)
(* C25: whatever the sequence and interleaving of create_comment and       *)
(* delete_comment, no stored comment is its own ancestor, and the tree     *)
(* build_comment_tree builds from a post's comments, in any order the      *)
(* database may list them, nests no deeper than the number of those        *)
(* comments.                                                               *)
(***************************************************************************)
C25_ThreadsAcyclic ==
  /\ \A c \in db.comments :
       c.id \notin AncestorsWithin(db.comments, {c.id}, Cardinality(db.comments))
  /\ \A post_id \in ThreadPostIds :
       \A comments \in order_by_asc(CommentsOf(db, post_id), "created_at") :
         DepthOf(build_comment_tree(comments, Null)) <= Len(comments)

\* a thread three comments deep is stored
C25_Witness ==
  \E a, b, c \in db.comments :
    /\ a.parent_id = Null
    /\ b.parent_id = a.id
    /\ c.parent_id = b.id
    /\ \A comments \in order_by_asc(CommentsOf(db, a.post_id), "created_at") :
         DepthOf(build_comment_tree(comments, Null)) = 3

(***************************************************************************)
(* The tree of one post while its comments are created and deleted, every  *)
(* request free to run between the awaits of another.                      *)
(***************************************************************************)
InitForest == InitCommon /\ db = TwoPostsDb /\ serial = FALSE

NextForest ==
  \/ \E p \in Procs, parent_id \in ThreadParentIds :
       create_comment_read(p, Bearer(AliceToken), 1, parent_id)
  \/ \E p \in Procs : create_comment_commit(p)
  \/ \E p \in Procs, id \in 1..MaxComments :
       delete_comment_read(p, Bearer(AliceToken), id)
  \/ \E p \in Procs : delete_comment_commit(p)
  \/ \E p \in Procs : get_post_comments(p, 1)

SpecForest == InitForest /\ [][NextForest]_vars

\* the post's comments in one of the orders the database may list them
Listed(d, post_id) == CHOOSE f \in order_by_asc(CommentsOf(d, post_id), "created_at") : TRUE

\* the ids of the comments nested under comment id, at any depth
SubtreeIds(d, post_id, id) ==
  LET nodes == NodesOf(build_comment_tree(Listed(d, post_id), id))
  IN { nodes[i].id : i \in 1..Len(nodes) }

TopLevelIds(d, post_id) ==
  LET tree == build_comment_tree(Listed(d, post_id), Null)
  IN { tree[i].id : i \in 1..Len(tree) }

\* every stored comment of the post is in the answered tree exactly once
EveryCommentOnce ==
  (last.op = "get_post_comments" /\ last.resp.status = 200) =>
    LET nodes == NodesOf(last.resp.data.comments) IN
      /\ \A c \in CommentsOf(last.pre, last.args.post_id) : Occurrences(nodes, c.id) = 1
      /\ Len(nodes) = Cardinality(CommentsOf(last.pre, last.args.post_id))

\* a step in which a delete_comment removes its comment turns the direct
\* replies of that comment into top-level comments, each with the replies
\* it had, and changes no other comment
RepliesBecomeTopLevel ==
  (last'.op = "delete_comment" /\ last'.resp.status = 200 /\ db' # db) =>
    LET id == last'.args.id
        post_id == RowOf(db.comments, id).post_id
        replies == { c \in db.comments : c.parent_id = id }
    IN /\ Ids(db'.comments) = Ids(db.comments) \ {id}
       /\ \A c \in db.comments \ replies :
            c.id # id => c \in db'.comments
       /\ \A c \in replies :
            /\ [c EXCEPT !.parent_id = Null] \in db'.comments
            /\ c.id \in TopLevelIds(db', post_id)
            /\ SubtreeIds(db', post_id, c.id) = SubtreeIds(db, post_id, c.id)

AnonDb ==
  [TwoUsersDb EXCEPT !.posts = {Post(1, 1, Null, {}, 0)}, !.next_id.posts = 2]

InitAnon == InitCommon /\ db = AnonDb /\ serial = FALSE

NextAnon ==
  \/ \E p \in Procs, h \in {NoHeader, Bearer(AliceToken)}, parent_id \in {Null, 1} :
       create_comment_read(p, h, 1, parent_id)
  \/ \E p \in Procs : create_comment_commit(p)
  \/ \E p \in Procs, h \in OwnerHeaders, id \in 1..MaxComments :
       delete_comment_read(p, h, id)
  \/ \E p \in Procs : delete_comment_commit(p)
  \/ \E p \in Procs : delete_post(p, Bearer(AliceToken), 1)

SpecAnon == InitAnon /\ [][NextAnon]_vars

\* a comment created by a request without an identity is stored with no
\* user, and a delete_comment by an authenticated caller on a stored comment
\* with no user is answered 403 and changes nothing
AnonymousRefused ==
  /\ (last.op = "create_comment" /\ last.resp.status = 201
        /\ last.args.header = NoHeader) =>
       \A c \in last.post.comments :
         c.id = last.post.next_id.comments - 1 => c.user_id = Null
  /\ (last.op = "delete_comment" /\ last.args.header \in OwnerHeaders
        /\ \E c \in last.pre.comments : c.id = last.args.id /\ c.user_id = Null) =>
       /\ last.resp.status = 403
       /\ last.post = last.pre

\* no step removes a stored comment that has no user, or gives it one
AnonymousStays ==
  \A c \in db.comments :
    c.user_id = Null => \E c2 \in db'.comments : c2.id = c.id /\ c2.user_id = Null

MaxEnumTickets == 2    \* tickets ever created

status_pattern_any(s) == TRUE

\* pattern="^(open|in_progress|resolved|closed)$"
status_pattern(s) == s \in {"open", "in_progress", "resolved", "closed"}

\* pattern="^(low|medium|high|urgent)$"
priority_pattern(s) == s \in {"low", "medium", "high", "urgent"}

TicketCreate(status, priority, category_id) ==
  [status |-> status, priority |-> priority, category_id |-> category_id]

TicketUpdateBody(status, priority, category_id) ==
  [title |-> NoText, status |-> status, priority |-> priority,
   category_id |-> category_id]

\* Optional[str] = Field(..., pattern=...): None is accepted unmatched
TicketBodyValidates(ticket_data) ==
  /\ ticket_data.status = NoText \/ status_pattern(ticket_data.status)
  /\ ticket_data.priority = NoText \/ priority_pattern(ticket_data.priority)

\* `x or default`: None and the empty string give the default
OrDefault(x, default) == IF x = NoText \/ x = "" THEN default ELSE x

\* Ticket(status=ticket_data.status or "open",
\*        priority=ticket_data.priority or "medium", ...)
new_ticket(id, user_id, ticket_data, t) ==
  [id |-> id, title |-> "t", status |-> OrDefault(ticket_data.status, "open"),
   priority |-> OrDefault(ticket_data.priority, "medium"),
   category_id |-> ticket_data.category_id, user_id |-> user_id,
   created_at |-> t, updated_at |-> t]

\* create_ticket with the whole body: 422 from the schema, then the
\* category lookup, then the row with status=ticket_data.status or "open",
\* priority=ticket_data.priority or "medium"
create_ticket_validated(p, h, ticket_data) ==
  LET args == [header |-> h, body |-> ticket_data]
      user == require_current_user(h, db, now).user
      category_id == ticket_data.category_id
  IN Protected(p, h, "create_ticket", args,
       IF ~TicketBodyValidates(ticket_data)
         THEN Respond(p, "create_ticket", args, RequestValidationError, db, db, TRUE)
       ELSE IF Truthy(category_id) /\ category_id \notin Ids(db.ticket_categories)
         THEN Respond(p, "create_ticket", args,
                      JSONResponse(404, 404, DataEmpty, "category not found"), db, db, TRUE)
         ELSE Respond(p, "create_ticket", args,
                      JSONResponse(201, 201, DataEmpty, "ticket created"), db,
                      [db EXCEPT !.tickets = @ \cup
                                   {new_ticket(db.next_id.tickets, user.id, ticket_data,
                                               now)},
                                 !.next_id.tickets = @ + 1],
                      TRUE))

\* `if ticket_data.priority is not None: ticket.priority = ...`
with_priority(ticket, ticket_data) ==
  [id |-> ticket.id, title |-> ticket.title, status |-> ticket.status,
   priority |-> IF ticket_data.priority # NoText
                  THEN ticket_data.priority ELSE ticket.priority,
   category_id |-> ticket.category_id, user_id |-> ticket.user_id,
   created_at |-> ticket.created_at, updated_at |-> ticket.updated_at]

\* update_ticket with the whole body: 422 from the schema, 404 for an
\* unknown ticket or category, then `if ticket_data.<field> is not None`
\* assignments of status and priority
update_ticket_validated(p, h, id, ticket_data) ==
  LET args == [header |-> h, id |-> id, body |-> ticket_data] IN
  Protected(p, h, "update_ticket", args,
    IF ~TicketBodyValidates(ticket_data)
      THEN Respond(p, "update_ticket", args, RequestValidationError, db, db, TRUE)
    ELSE IF id \notin Ids(db.tickets)
      THEN Respond(p, "update_ticket", args,
                   JSONResponse(404, 404, DataEmpty, "ticket not found"), db, db, TRUE)
    ELSE IF /\ Truthy(ticket_data.category_id)
            /\ ticket_data.category_id \notin Ids(db.ticket_categories)
      THEN Respond(p, "update_ticket", args,
                   JSONResponse(404, 404, DataEmpty, "category not found"), db, db, TRUE)
    ELSE Respond(p, "update_ticket", args,
                 JSONResponse(200, 200, DataEmpty, "ticket updated"), db,
                 [db EXCEPT !.tickets = (@ \ {RowOf(db.tickets, id)})
                      \cup {with_priority(
                              updated_ticket(RowOf(db.tickets, id), ticket_data, now),
                              ticket_data)}],
                 TRUE))

StatusInputs == {NoText, "open", "in_progress", "resolved", "closed", "done", "Open", ""}
PriorityInputs == {NoText, "low", "medium", "high", "urgent", "critical", ""}

\* bodies that set one of the two fields, both, or neither
TicketBodies ==
  { <<s, NoText>> : s \in StatusInputs } \cup { <<NoText, pr>> : pr \in PriorityInputs }
    \cup { <<"closed", "urgent">>, <<"done", "critical">>, <<"resolved", "">> }

TicketCreates == { TicketCreate(b[1], b[2], Null) : b \in TicketBodies }
TicketUpdateBodies == { TicketUpdateBody(b[1], b[2], Null) : b \in TicketBodies }

InitEnum == InitCommon /\ db = ReferredDb /\ serial = TRUE

NextEnum ==
  \/ \E p \in Procs, ticket_data \in TicketCreates :
       /\ db.next_id.tickets <= MaxEnumTickets
       /\ create_ticket_validated(p, Bearer(AliceToken), ticket_data)
  \/ \E p \in Procs, id \in 1..MaxEnumTickets, ticket_data \in TicketUpdateBodies :
       update_ticket_validated(p, Bearer(AliceToken), id, ticket_data)

SpecEnum == InitEnum /\ [][NextEnum]_vars

Statuses == {"open", "in_progress", "resolved", "closed"}
Priorities == {"low", "medium", "high", "urgent"}

TicketRoutes == {"create_ticket", "update_ticket"}

(***************************************************************************)
(* C23: every stored ticket has a status among open, in_progress,          *)
(* resolved, closed and a priority among low, medium, high, urgent; a      *)
(* create_ticket without status (priority) stores open (medium); and a     *)
(* create or update carrying any other value is rejected and leaves        *)
(* storage as it was.                                                      *)
(***************************************************************************)
C23_TicketEnumerations ==
  /\ \A t \in db.tickets : t.status \in Statuses /\ t.priority \in Priorities
  /\ (last.op = "create_ticket" /\ last.resp.status = 201) =>
       \A t \in last.post.tickets \ last.pre.tickets :
         /\ last.args.body.status = NoText => t.status = "open"
         /\ last.args.body.priority = NoText => t.priority = "medium"
  /\ (/\ last.op \in TicketRoutes
      /\ \/ last.args.body.status \notin Statuses \cup {NoText}
         \/ last.args.body.priority \notin Priorities \cup {NoText}) =>
       /\ last.resp.status = 422
       /\ last.post = last.pre

\* a ticket created without status and priority is stored beside one
\* whose update with an unknown status was refused
C23_Witness ==
  /\ last.op = "update_ticket"
  /\ last.args.body.status = "done"
  /\ last.resp.status = 422
  /\ \E t \in db.tickets :
       t.id = last.args.id /\ t.status = "open" /\ t.priority = "medium"
  /\ \E t \in db.tickets : t.status = "closed" /\ t.priority = "urgent"

(***************************************************************************)
(* Tag lists of posts (api/posts.py create_post / update_post).  The body  *)
(* carries tag_ids as a list; `Tag.id.in_(tag_ids)` selects each stored    *)
(* tag whose id occurs in it, once.                                        *)
(***************************************************************************)
MaxTagged == 2    \* posts ever created

\* the ids a list names, for `Tag.id.in_(post_data.tag_ids)`
in_(tag_ids) == { tag_ids[i] : i \in 1..Len(tag_ids) }

\* Storage with two tags; no tag has id 3.
TaggedDb ==
  [TwoUsersDb EXCEPT !.tags = @ \cup {Taxon(2, "howto")}, !.next_id.tags = 3]

TagLists == {<< >>, <<1>>, <<1, 1>>, <<2, 1>>, <<3>>, <<1, 3, 1>>}

\* the id sets the lists name, and the update bodies that carry them or
\* carry no tag_ids
TagSets == { in_(tag_ids) : tag_ids \in TagLists }
TagUpdates ==
  { PostUpdate(NoText, Null, tag_ids) : tag_ids \in TagSets }
    \cup { PostUpdate(title, Null, NoTagIds) : title \in {NoText, "u"} }

InitTags == InitCommon /\ db = TaggedDb /\ serial = TRUE

NextTags ==
  \/ \E p \in Procs, tag_ids \in TagSets :
       /\ db.next_id.posts <= MaxTagged
       /\ create_post(p, Bearer(AliceToken), Null, tag_ids)
  \/ \E p \in Procs, id \in 1..MaxTagged, post_data \in TagUpdates :
       update_post(p, Bearer(AliceToken), id, post_data)

SpecTags == InitTags /\ [][NextTags]_vars

\* the stored tags that a request's tag_ids name
Named(l) == l.args.tag_ids \cap Ids(l.pre.tags)

\* create_post attaches exactly the stored tags its list names, and
\* update_post without tag_ids leaves the post's tag set as it was
TagsOfCreateAndFrame ==
  /\ (last.op = "create_post" /\ last.resp.status = 201) =>
       \A post \in last.post.posts \ last.pre.posts : post.tags = Named(last)
  /\ (/\ last.op = "update_post"
      /\ last.args.id \in Ids(last.pre.posts)
      /\ last.args.body.tag_ids = NoTagIds) =>
       RowOf(last.post.posts, last.args.id).tags = RowOf(last.pre.posts, last.args.id).tags

(***************************************************************************)
(* C24: after create_post or update_post with a tag_ids list the post's    *)
(* tag set is the set of stored tags whose id occurs in the list (an empty *)
(* list empties it on update); update_post without tag_ids leaves the tag  *)
(* set unchanged.                                                          *)
(***************************************************************************)
C24_TagSetFollowsList ==
  /\ TagsOfCreateAndFrame
  /\ (/\ last.op = "update_post"
      /\ last.args.id \in Ids(last.pre.posts)
      /\ last.args.body.tag_ids # NoTagIds) =>
       RowOf(last.post.posts, last.args.id).tags
         = last.args.body.tag_ids \cap Ids(last.pre.tags)

(***************************************************************************)
(* Logout (api/auth.py).  The handler takes no parameter, reads no header  *)
(* and makes no database call.  A client that has logged out keeps its     *)
(* token and presents it again to a route behind get_current_user: its     *)
(* slot stays at "logged_out", with the header it sent, until it does.     *)
(***************************************************************************)
logout_forgetting_users(d) == [d EXCEPT !.users = {}]

\* the storage logout leaves
logout_storage(d) == d

logout_response == JSONResponse(200, 200, DataEmpty, "logout success")

Logout(p, h) ==
  /\ CanBegin(p)
  /\ db' = logout_storage(db)
  /\ pc' = [pc EXCEPT ![p] = "logged_out"]
  /\ req' = [req EXCEPT ![p] = [op |-> "logout", header |-> h, t |-> now,
                                accepted |-> get_current_user(h, db, now).ok]]
  /\ last' = [op |-> "logout", args |-> [header |-> h], resp |-> logout_response,
              pre |-> db, post |-> logout_storage(db), t |-> now, body |-> TRUE]
  /\ UNCHANGED <<now, minted, issued, acked, serial>>

\* the client of slot p presents the header of its logout to a protected
\* route
PresentAgain(p) ==
  /\ pc[p] = "logged_out"
  /\ LET h == req[p].header
         r == get_current_user(h, db, now)
         args == [header |-> h, logout_at |-> req[p].t, accepted |-> req[p].accepted]
     IN IF r.ok
          THEN Respond(p, "protected", args,
                       JSONResponse(200, 200, UserData(r.user), "success"), db, db, TRUE)
          ELSE Respond(p, "protected", args, r.error, db, db, FALSE)
  /\ UNCHANGED <<now, minted, issued, acked, serial>>

LogoutHeaders ==
  { NoHeader, Bearer(AliceToken), Bearer(BobToken), Bearer(MalformedToken),
    Bearer(create_access_token([sub |-> StrOf(1)], TickMinutes, 0)),
    Bearer(create_access_token([sub |-> StrOf(3)], NoDelta, 0)) }

InitLogout == InitCommon /\ db = TwoUsersDb /\ serial = FALSE

NextLogout ==
  \/ \E p \in Procs, h \in LogoutHeaders : Logout(p, h)
  \/ \E p \in Procs : PresentAgain(p)
  \/ \E p \in Procs, h \in LogoutHeaders : ProtectedRoute(p, h)
  \/ Tick

SpecLogout == InitLogout /\ [][NextLogout]_vars

(***************************************************************************)
(* C28: logout answers 200 with or without a token and leaves storage as   *)
(* it was; and a token that get_current_user accepted when its client      *)
(* logged out is accepted again whenever it is presented before its        *)
(* expiry.                                                                 *)
(***************************************************************************)
C28_LogoutChangesNothing ==
  /\ last.op = "logout" =>
       /\ last.resp.status = 200 /\ last.resp.code = 200
       /\ last.post = last.pre
       /\ db = last.pre
  /\ (/\ last.op = "protected"
      /\ "logout_at" \in DOMAIN last.args
      /\ last.args.accepted
      /\ last.t < last.args.header.token.exp) =>
       last.resp.status = 200

\* a token was presented, and accepted, a clock tick after its client had
\* logged out with it
C28_Witness ==
  /\ last.op = "protected"
  /\ "logout_at" \in DOMAIN last.args
  /\ last.args.accepted
  /\ last.args.logout_at < last.t
  /\ last.t < last.args.header.token.exp
  /\ last.resp.status = 200

(***************************************************************************)
(* Walking the pages (api/posts.py list_posts, api/tickets.py              *)
(* list_tickets).  A client asks for page 1, 2, ... of one size, one       *)
(* request per page; each request runs its own ORDER BY ... DESC query,    *)
(* and stops after the page that reaches the total it was told.  The slot  *)
(* of the client holds the pages it has received so far.                   *)
(***************************************************************************)
MaxWalked == 3    \* rows ever created over posts and tickets together

RowsWalked(d) == (d.next_id.posts - 1) + (d.next_id.tickets - 1)
WalkRoom == RowsWalked(db) < MaxWalked

WalkData(pages) == [kind |-> "walk", pages |-> pages]

BeginWalk(p, op, table, column, size) ==
  /\ CanBegin(p)
  /\ pc' = [pc EXCEPT ![p] = "walking"]
  /\ req' = [req EXCEPT ![p] = [op |-> op, table |-> table, column |-> column,
                                size |-> size, page |-> 1, pages |-> << >>,
                                snap |-> db]]
  /\ UNCHANGED <<db, now, last, minted, issued, acked, serial>>

\* one list request of the walk: the count and the page of rows
WalkStep(p) ==
  /\ pc[p] = "walking"
  /\ LET r == req[p]
         total == Cardinality(db[r.table])
     IN \E ordered \in order_by_desc(db[r.table], r.column) :
          LET rows == offset_limit(ordered, offset(r.page, r.size), r.size)
              pages == Append(r.pages, [i \in 1..Len(rows) |-> rows[i].id])
          IN IF r.page * r.size >= total
               THEN Respond(p, r.op, [size |-> r.size, table |-> r.table],
                            JSONResponse(200, 200, WalkData(pages), "success"),
                            r.snap, db, TRUE)
               ELSE /\ req' = [req EXCEPT ![p] = [r EXCEPT !.page = @ + 1,
                                                           !.pages = pages]]
                    /\ UNCHANGED <<db, pc, last>>
  /\ UNCHANGED <<now, minted, issued, acked, serial>>

InitWalk == InitCommon /\ db = OneUserDb /\ serial = TRUE

NextWalk ==
  \/ \E p \in Procs : WalkRoom /\ create_post(p, Bearer(AliceToken), Null, {})
  \/ \E p \in Procs : WalkRoom /\ create_ticket(p, Bearer(AliceToken), Null)
  \/ \E p \in Procs, size \in 1..MaxSize :
       BeginWalk(p, "walk_posts", "posts", "date", size)
  \/ \E p \in Procs, size \in 1..MaxSize :
       BeginWalk(p, "walk_tickets", "tickets", "created_at", size)
  \/ \E p \in Procs : WalkStep(p)
  \/ Tick

SpecWalk == InitWalk /\ [][NextWalk]_vars

WalkRoutes == {"walk_posts", "walk_tickets"}

\* how often a row's id occurs on the pages of a walk
OnPages(pages, id) ==
  Cardinality({ <<k, i>> \in (1..Len(pages)) \X (1..MaxSize) :
                  i <= Len(pages[k]) /\ pages[k][i] = id })

\* the rows stayed as they were from the first request of the walk to its
\* last
RowsUnchanged(l) == l.pre[l.args.table] = l.post[l.args.table]

\* no two rows share the sort key
KeysDistinct(l) ==
  LET column == IF l.op = "walk_posts" THEN "date" ELSE "created_at" IN
  \A x, y \in l.pre[l.args.table] : x[column] = y[column] => x = y

\* over unchanged rows with distinct sort keys, every row is on exactly
\* one page of the walk
PagesPartitionDistinctKeys ==
  (last.op \in WalkRoutes /\ RowsUnchanged(last) /\ KeysDistinct(last)) =>
    \A id \in Ids(last.pre[last.args.table]) : OnPages(last.resp.data.pages, id) = 1

(***************************************************************************)
(* C29: over an unchanged set of rows and a fixed size, the pages 1, 2,    *)
(* ... of list_posts and of list_tickets hold every row exactly once, also *)
(* when rows share the sort key.                                           *)
(***************************************************************************)
C29_PagesPartition ==
  (last.op \in WalkRoutes /\ RowsUnchanged(last)) =>
    \A id \in Ids(last.pre[last.args.table]) : OnPages(last.resp.data.pages, id) = 1

\* no step lowers the views or the likes of a post that stays stored
CountersDoNotDecrease ==
  \A post \in db.posts : \A after \in db'.posts :
    after.id = post.id => after.views >= post.views /\ after.likes >= post.likes

(***************************************************************************)
(* C30: the committed views and likes of a stored post never decrease,     *)
(* whatever requests run and however they interleave.                      *)
(***************************************************************************)
C30_CountersNeverDecrease == [][CountersDoNotDecrease]_vars

====
